---- MODULE Spec2Model ----
(***************************************************************************)
(* Model of the Self-Learning Evaluator of the Thoth operating mask        *)
(* (scripts bak/self_learning_evaluator bak 1.py).                          *)
(*                                                                         *)
(* One evaluator run is one process invocation: the module body reads the  *)
(* clock (NOW) and the APPLY toggle, then main() loads the policy, reads   *)
(* and aggregates the telemetry log, decides a verdict, derives the        *)
(* proposals, writes the patch file, optionally rewrites the threshold     *)
(* store and finally appends a line to the learning log.  Every file       *)
(* access of main() is one step of the run, so that a run that raises      *)
(* part-way leaves the files written so far.                               *)
(*                                                                         *)
(* Numbers.  Threshold values, deltas and caps are integers in units of    *)
(* 1e-5 (0.02 is 2000), so that round(x, 4) is a real rounding to a        *)
(* multiple of 10.  Telemetry scores are integers in hundredths (0.88 is   *)
(* 88) and an average is an exact fraction num/den in lowest terms.        *)
(* Instants are integers in clock units, UnitsPerSecond of them to the     *)
(* second.                                                                 *)
(*                                                                         *)
(* The module also covers the lunar phase bias (Lunar/lunar_nudge.py and   *)
(* mask_runtime.apply_lunar_nudges, specification SpecLunar) and the       *)
(* project loader's passes over the file tree (thoth_loader bak 8.py,      *)
(* specification SpecLoader; thoth_loader bak 6.py, specification          *)
(* SpecMigrate).  Lever multipliers and caps are integers in hundredths    *)
(* (1.10 is 110), a phase fraction is an exact fraction over the synodic   *)
(* period, and a file tree is a function from paths to contents.           *)
(*                                                                         *)
(* Further specifications: SpecApply runs the evaluator over stores whose  *)
(* entries are not all plain numbers, SpecPhase names the phase of the     *)
(* doubles next to the bin boundaries (a double next to k/16 is k and an   *)
(* offset in units of 2^-57), and SpecGuard follows loader runs with       *)
(* calls of the activation guard (activate_guard.py).                      *)
(***************************************************************************)
EXTENDS Integers, Sequences, FiniteSets, TLC

VARIABLES
  now,        \* the wall clock (dt.datetime.utcnow()), in clock units
  ticks,      \* how many times the clock has advanced (bounds the model)
  policy,     \* runtime/self_learning.yaml
  telem,      \* thread/telemetry.jsonl
  store,      \* thresholds_1.1.yaml
  patches,    \* thread/patches/: file name -> patch document
  audit,      \* thread/learning_log.md: the sequence of its lines
  runs,       \* the evaluator invocations: run id -> its locals and position
  lunar,      \* the phase bias: the sampled instant, the heap of threshold
              \* mappings and the applicator's argument and result
  tree        \* the loader's project root: path -> file content

vars == <<now, ticks, policy, telem, store, patches, audit, runs, lunar, tree>>

---------------------------------------------------------------------------
(* Bounds of the model *)

MaxRuns == 3
MaxTicks == 2
UnitsPerSecond == 2

RunIds == 1..MaxRuns

---------------------------------------------------------------------------
(* Units and program constants *)

SecondsPerHour == 60 * 60
DayUnits == 24 * SecondsPerHour * UnitsPerSecond

\* defaults of the policy lookups
DefaultWindowHours == 24
DefaultMinSamples == 20
DefaultCapCall == 4000
DefaultCapSever == 2000
DefaultSamples == 1

\* step sizes of the proposals
StepCall == 2000
StepSever == 1000

\* admissible ranges of the apply step
CallFloor == 40000
CallCeil == 80000
SeverFloor == 20000
SeverCeil == 35000

\* round(new, 4): one unit of the fourth decimal place, in 1e-5 units
RoundUnit == 10 * 1

\* the number 1.0 in 1e-5 units
One == 10000 * RoundUnit

CALL == "call_harmonizers_below"
SEVER == "early_severance_below"
UNTUNED == "coherence_floor"
Keys == {CALL, SEVER, UNTUNED}
ProfileNames == {"default", "strict"}

---------------------------------------------------------------------------
(* Python helpers *)

Min(a, b) == IF a <= b THEN a ELSE b
Max(a, b) == IF a >= b THEN a ELSE b
Abs(a) == IF a < 0 THEN -a ELSE a

RECURSIVE GCD(_, _)
GCD(a, b) == IF b = 0 THEN a ELSE GCD(b, a % b)

\* an optional value: a key that may be missing from a mapping
Some(v) == [has |-> TRUE, v |-> v]
Missing == [has |-> FALSE, v |-> 0]
Get(opt, default) == IF opt.has THEN opt.v ELSE default

\* avg(xs) of a list of hundredths: None on the empty list, else sum/len
NoneAvg == [def |-> FALSE, num |-> 0, den |-> 1]

RECURSIVE SumSeq(_)
SumSeq(xs) == IF xs = <<>> THEN 0 ELSE Head(xs) + SumSeq(Tail(xs))

avg(xs) ==
  IF xs = <<>> THEN NoneAvg
  ELSE LET s == SumSeq(xs)
           g == GCD(Len(xs), Abs(s))
       IN [def |-> TRUE, num |-> s \div g, den |-> Len(xs) \div g]

clamp(val, lo, hi) == Max(lo, Min(hi, val))

\* the written value left as computed, without round(new, 4)
Round4None(x) == x

\* round(x, 4) of a value in 1e-5 units: the nearest multiple of RoundUnit,
\* a tie going to the even fourth decimal
Round4(x) ==
  LET q == x \div RoundUnit
      r == x % RoundUnit
  IN IF 2 * r < RoundUnit THEN q * RoundUnit
     ELSE IF 2 * r > RoundUnit THEN (q + 1) * RoundUnit
     ELSE IF q % 2 = 0 THEN q * RoundUnit ELSE (q + 1) * RoundUnit

\* NOW.strftime("%Y%m%d-%H%M%S") and ISO(NOW): the instant cut to its second
Stamp(t) == t \div UnitsPerSecond
ISO(t) == t \div UnitsPerSecond

\* the UTC calendar day of an instant
DayOf(t) == t \div DayUnits

---------------------------------------------------------------------------
(* Predicate expressions of the policy, as eval() evaluates them           *)

Atom(var, cmp, k) == [var |-> var, cmp |-> cmp, k |-> k]
Expr(op, l, r) == [op |-> op, l |-> l, r |-> r]

\* a comparison of a bound variable with a constant; NameError otherwise
EvalAtom(a, coh, mir) ==
  IF a.var \notin {"coh", "mir"} THEN "error"
  ELSE LET x == IF a.var = "coh" THEN coh ELSE mir
           lhs == x.num
           rhs == a.k * x.den
           b == CASE a.cmp = ">=" -> lhs >= rhs
                  [] a.cmp = "<=" -> lhs <= rhs
                  [] a.cmp = "<"  -> lhs < rhs
                  [] a.cmp = ">"  -> lhs > rhs
       IN IF b THEN "true" ELSE "false"

\* `l and r` / `l or r` with Python's short circuit
EvalExpr(e, coh, mir) ==
  LET l == EvalAtom(e.l, coh, mir)
  IN IF l = "error" THEN "error"
     ELSE IF e.op = "and"
          THEN (IF l = "false" THEN "false" ELSE EvalAtom(e.r, coh, mir))
          ELSE (IF l = "true" THEN "true" ELSE EvalAtom(e.r, coh, mir))

DefaultReward == Expr("and", Atom("coh", ">=", 88), Atom("mir", "<=", 35))
DefaultPenalty == Expr("or", Atom("coh", "<", 55), Atom("mir", ">", 50))

---------------------------------------------------------------------------
(* The documents the evaluator reads                                       *)

MissingExpr == [has |-> FALSE, v |-> DefaultReward]
Window(n, unit) == [text |-> n, unit |-> unit]
MissingWindow == [has |-> FALSE, v |-> Window(0, "")]

\* one line of telemetry.jsonl.  line: "mapping" when json.loads gives a
\* mapping, "scalar" when it gives a number, "corrupt" when it raises.  Of a
\* mapping: `key` is the name of its time field, t the instant it holds, tsok
\* whether fromisoformat takes it, event its "event" entry ("" when it has none)
Row(key, t, coherence, mirror_residual, samples) ==
  [line |-> "mapping", key |-> key, t |-> t, tsok |-> TRUE, coherence |-> coherence,
   mirror_residual |-> mirror_residual, samples |-> samples, event |-> ""]
CorruptLine == [Row("", 0, Missing, Missing, Missing) EXCEPT !.line = "corrupt"]
ScalarLine == [Row("", 0, Missing, Missing, Missing) EXCEPT !.line = "scalar"]

\* a value of a profile: a number, a boolean (in Python an int: True is 1 and
\* False is 0), a non-number (a string), or no such key
Num(v) == [kind |-> "num", v |-> v]
Bool(b) == [kind |-> "bool", v |-> IF b THEN One ELSE 0]
Str == [kind |-> "str", v |-> 0]
Absent == [kind |-> "absent", v |-> 0]

Profile(call, sever, untuned) ==
  [dict |-> TRUE,
   f |-> [k \in Keys |-> IF k = CALL THEN call ELSE IF k = SEVER THEN sever ELSE untuned]]
NotAMapping == [dict |-> FALSE, f |-> [k \in Keys |-> Absent]]

\* thresholds_1.1.yaml: wrapped when the profiles sit under a top-level
\* `thresholds` key, else under a top-level `gates` key
StoreDoc(status, wrapped, default, strict) ==
  [status |-> status, wrapped |-> wrapped,
   profiles |-> [p \in ProfileNames |-> IF p = "default" THEN default ELSE strict]]

---------------------------------------------------------------------------
(* Inputs: the files a behaviour starts from                               *)

\* the policy with every lookup left to its default
PolicyDefault ==
  [status |-> "ok", window |-> MissingWindow, min_samples |-> Missing,
   reward |-> MissingExpr, penalty |-> MissingExpr,
   cap_call |-> Missing, cap_sever |-> Missing]

\* a 1h window, a low sample gate, predicates that overlap, tight caps
PolicyTight ==
  [status |-> "ok", window |-> Some(Window(1, "h")), min_samples |-> Some(2),
   reward |-> Some(Expr("or", Atom("coh", ">=", 50), Atom("mir", "<=", 10))),
   penalty |-> Some(Expr("or", Atom("coh", "<", 95), Atom("mir", ">", 50))),
   cap_call |-> Some(1000), cap_sever |-> Some(2000)]

\* predicates over names the evaluator does not bind, a window that is not
\* in hours, a cap below the rounding unit and a negative cap
PolicyOdd ==
  [status |-> "ok", window |-> Some(Window(0, "night")), min_samples |-> Some(20),
   reward |-> Some(Expr("and", Atom("coh", ">=", 88), Atom("mirror_residual", "<=", 35))),
   penalty |-> Some(Expr("or", Atom("coh", "<", 55), Atom("mirror_residual", ">", 50))),
   cap_call |-> Some(3), cap_sever |-> Some(-50000)]

Policies ==
  {PolicyDefault, PolicyTight, PolicyOdd,
   [PolicyDefault EXCEPT !.status = "missing"],
   [PolicyDefault EXCEPT !.status = "malformed"]}

HalfDay == 12 * SecondsPerHour * UnitsPerSecond

TelemetryLogs ==
  { [exists |-> FALSE, rows |-> <<>>],
    [exists |-> TRUE, rows |-> <<>>],
    \* high coherence, low residual, 26 samples
    [exists |-> TRUE, rows |->
       << Row("ts", -HalfDay, Some(90), Some(22), Missing),
          Row("ts", 0, Some(94), Some(18), Some(25)) >>],
    \* low coherence, 25 samples; the second row carries no residual
    [exists |-> TRUE, rows |->
       << Row("ts", 0, Some(40), Some(60), Some(25)),
          Row("ts", 0, Some(41), Missing, Missing) >>],
    \* middling scores, 30 samples
    [exists |-> TRUE, rows |->
       << Row("ts", 0, Some(70), Some(40), Some(30)) >>],
    \* extreme scores but only 10 samples
    [exists |-> TRUE, rows |->
       << Row("ts", 0, Some(99), Some(1), Some(10)) >>],
    \* rows without coherence: no coherence average
    [exists |-> TRUE, rows |->
       << Row("ts", 0, Missing, Some(20), Some(30)) >>],
    \* a row whose ts does not parse
    [exists |-> TRUE, rows |->
       << [Row("ts", 0, Some(90), Some(20), Some(30)) EXCEPT !.tsok = FALSE] >>] }

Stores ==
  { StoreDoc("ok", TRUE, Profile(Num(60000), Num(30000), Num(50000)),
                         Profile(Num(42000), Num(34500), Absent)),
    StoreDoc("ok", TRUE, Profile(Num(90000), Num(10000), Num(50000)),
                         NotAMapping),
    StoreDoc("ok", TRUE, Profile(Num(78500), Absent, Str),
                         Profile(Str, Num(20500), Num(50000))),
    StoreDoc("ok", FALSE, Profile(Num(60000), Num(30000), Num(50000)),
                          Profile(Absent, Absent, Num(50000))),
    StoreDoc("missing", TRUE, NotAMapping, NotAMapping),
    StoreDoc("malformed", TRUE, NotAMapping, NotAMapping) }

---------------------------------------------------------------------------
(* main(): configuration, telemetry, decision, proposals                   *)

\* hours = int(str(window).rstrip("h")) if str(window).endswith("h") else 24
WindowHours(sl) ==
  LET w == Get(sl.window, Window(DefaultWindowHours, "h"))
  IN IF w.unit = "h" THEN w.text ELSE DefaultWindowHours

MinSamples(sl) == Get(sl.min_samples, DefaultMinSamples)

\* read_jsonl: no file reads as no rows; a line json.loads rejects is skipped
read_jsonl(file) ==
  IF file.exists THEN SelectSeq(file.rows, LAMBDA r : r.line # "corrupt") ELSE <<>>

\* the filter of line 50 raises on a row that is no container (`"ts" in r`)
\* and on a row that has a "ts" parse_ts cannot parse
ParseFails(rows) ==
  \E i \in 1..Len(rows) :
    rows[i].line = "scalar" \/ (rows[i].key = "ts" /\ ~rows[i].tsok)

\* recent = [r for r in telem if "ts" in r and parse_ts(r["ts"]) >= tcut]
InWindow(r, tcut) == r.key = "ts" /\ r.t >= tcut
Recent(rows, NOW, hours) ==
  LET tcut == NOW - hours * SecondsPerHour * UnitsPerSecond
  IN SelectSeq(rows, LAMBDA r : InWindow(r, tcut))

CoherenceAvg(recent) ==
  LET xs == SelectSeq(recent, LAMBDA r : r.coherence.has)
  IN avg([i \in 1..Len(xs) |-> xs[i].coherence.v])

MirrorAvg(recent) ==
  LET xs == SelectSeq(recent, LAMBDA r : r.mirror_residual.has)
  IN avg([i \in 1..Len(xs) |-> xs[i].mirror_residual.v])

\* the sample count taken as the number of rows
SampleCountRows(recent) == Len(recent)

SampleCount(recent) ==
  SumSeq([i \in 1..Len(recent) |-> Get(recent[i].samples, DefaultSamples)])

RewardExpr(sl) == Get(sl.reward, DefaultReward)
PenaltyExpr(sl) == Get(sl.penalty, DefaultPenalty)

\* decision without the sample-count test
decisionNoGate(coh, mir, n, min_samples, reward_expr, penalty_expr) ==
  IF ~coh.def \/ ~mir.def THEN "insufficient"
  ELSE LET rw == EvalExpr(reward_expr, coh, mir)
       IN IF rw = "error" THEN "neutral"
          ELSE IF rw = "true" THEN "reward"
          ELSE LET pn == EvalExpr(penalty_expr, coh, mir)
               IN IF pn = "true" THEN "penalty" ELSE "neutral"

\* decision that tries the penalty predicate first
decisionPenaltyFirst(coh, mir, n, min_samples, reward_expr, penalty_expr) ==
  IF ~coh.def \/ ~mir.def \/ n < min_samples THEN "insufficient"
  ELSE LET pn == EvalExpr(penalty_expr, coh, mir)
       IN IF pn = "error" THEN "neutral"
          ELSE IF pn = "true" THEN "penalty"
          ELSE LET rw == EvalExpr(reward_expr, coh, mir)
               IN IF rw = "true" THEN "reward" ELSE "neutral"

\* decision that turns a predicate error into a penalty
decisionErrorPenalty(coh, mir, n, min_samples, reward_expr, penalty_expr) ==
  IF ~coh.def \/ ~mir.def \/ n < min_samples THEN "insufficient"
  ELSE LET rw == EvalExpr(reward_expr, coh, mir)
       IN IF rw = "error" THEN "penalty"
          ELSE IF rw = "true" THEN "reward"
          ELSE LET pn == EvalExpr(penalty_expr, coh, mir)
               IN IF pn = "true" THEN "penalty"
                  ELSE IF pn = "error" THEN "penalty" ELSE "neutral"

decision(coh, mir, n, min_samples, reward_expr, penalty_expr) ==
  IF ~coh.def \/ ~mir.def \/ n < min_samples THEN "insufficient"
  ELSE LET rw == EvalExpr(reward_expr, coh, mir)
       IN IF rw = "error" THEN "neutral"
          ELSE IF rw = "true" THEN "reward"
          ELSE LET pn == EvalExpr(penalty_expr, coh, mir)
               IN IF pn = "true" THEN "penalty" ELSE "neutral"

CapCall(sl) == Get(sl.cap_call, DefaultCapCall)
CapSever(sl) == Get(sl.cap_sever, DefaultCapSever)

PathOf(key) == <<"thresholds", "gates", "profiles", "*", key>>
Proposal(key, delta) == [path |-> PathOf(key), delta |-> delta]

\* proposals with the penalty branch lost
ProposalsRewardOnly(verdict, c_call, c_sever) ==
  IF verdict = "reward"
  THEN << Proposal(CALL, -Min(StepCall, c_call)), Proposal(SEVER, Min(StepSever, c_sever)) >>
  ELSE <<>>

\* proposals that ignore the caps
ProposalsUncapped(verdict, c_call, c_sever) ==
  IF verdict = "reward"
  THEN << Proposal(CALL, -StepCall), Proposal(SEVER, StepSever) >>
  ELSE IF verdict = "penalty"
  THEN << Proposal(CALL, StepCall), Proposal(SEVER, -StepSever) >>
  ELSE <<>>

\* proposals whose penalty branch repeats the reward branch
ProposalsPenaltySameSign(verdict, c_call, c_sever) ==
  IF verdict \in {"reward", "penalty"}
  THEN << Proposal(CALL, -Min(StepCall, c_call)), Proposal(SEVER, Min(StepSever, c_sever)) >>
  ELSE <<>>

Proposals(verdict, c_call, c_sever) ==
  IF verdict = "reward"
  THEN << Proposal(CALL, -Min(StepCall, c_call)), Proposal(SEVER, Min(StepSever, c_sever)) >>
  ELSE IF verdict = "penalty"
  THEN << Proposal(CALL, Min(StepCall, c_call)), Proposal(SEVER, -Min(StepSever, c_sever)) >>
  ELSE <<>>

\* the patch document and its file name
PatchName(NOW) == Stamp(NOW)
Patch(r) ==
  [meta |-> [ts |-> ISO(r.NOW), window_h |-> r.hours, samples |-> r.n,
             coherence_avg |-> r.coh, mirror_residual_avg |-> r.mir,
             verdict |-> r.verdict, apply |-> r.APPLY],
   proposals |-> r.proposals]

\* the apply guard without the APPLY toggle
ShouldApplyUnguarded(r) == r.proposals # <<>>

\* if APPLY and proposals:
ShouldApply(r) == r.APPLY /\ r.proposals # <<>>

---------------------------------------------------------------------------
(* main(): the apply step                                                  *)

\* key = pr["path"].split(".")[-1]
KeyOf(pr) == pr.path[Len(pr.path)]

\* the written value without the admissible range
NewValueUnclamped(key, old, delta) == Round4(old + delta)

\* the value written for `key` from the value read and the delta
NewValue(key, old, delta) ==
  IF key = CALL THEN Round4(Max(CallFloor, Min(CallCeil, old + delta)))
  ELSE IF key = SEVER THEN Round4(Max(SeverFloor, Min(SeverCeil, old + delta)))
  ELSE Round4(old + delta)

\* if key in prof and isinstance(prof[key], (int, float)): bool is a subclass
\* of int, so a boolean passes the test
Writable(prof, key) == prof.dict /\ prof.f[key].kind \in {"num", "bool"}

\* the proposals that write `key` of `prof`, by index
Writers(prof, key, proposals) ==
  {i \in 1..Len(proposals) : KeyOf(proposals[i]) = key /\ Writable(prof, key)}

\* the writes of the double loop: every profile, every proposal
Writes(thr, proposals) ==
  {[profile |-> name, key |-> key, delta |-> proposals[i].delta,
    old |-> thr.profiles[name].f[key].v,
    new |-> NewValue(key, thr.profiles[name].f[key].v, proposals[i].delta)] :
     <<name, key, i>> \in
       {x \in ProfileNames \X Keys \X (1..Len(proposals)) :
          x[3] \in Writers(thr.profiles[x[1]], x[2], proposals)}}

\* new_thr after the loop: each written key holds the value of its last writer,
\* computed from the value read into thr
NewProfiles(thr, proposals) ==
  [name \in ProfileNames |->
     LET prof == thr.profiles[name]
     IN [prof EXCEPT !.f =
           [key \in Keys |->
              LET ws == Writers(prof, key, proposals)
              IN IF ws = {} THEN prof.f[key]
                 ELSE LET last == CHOOSE i \in ws : \A j \in ws : j <= i
                      IN Num(NewValue(key, prof.f[key].v, proposals[last].delta))]]]

\* new_thr["thresholds"]["gates"]["profiles"][name][key] raises KeyError when
\* the document has no top-level "thresholds"
WriteRaises(thr, proposals) == ~thr.wrapped /\ Writes(thr, proposals) # {}

\* fmt(x): "None", or the average to three decimals (in thousandths)
fmt(x) ==
  IF ~x.def THEN [def |-> FALSE, milli |-> 0]
  ELSE [def |-> TRUE, milli |-> (20 * x.num + x.den) \div (2 * x.den)]

\* the log line with the APPLY toggle in place of the outcome
LogLineToggle(r) ==
  [ts |-> ISO(r.NOW), verdict |-> r.verdict, samples |-> r.n, coh |-> fmt(r.coh),
   mir |-> fmt(r.mir), proposals |-> Len(r.proposals), patch |-> r.patch_name,
   applied |-> r.APPLY]

\* the line appended to learning_log.md
LogLine(r) ==
  [ts |-> ISO(r.NOW), verdict |-> r.verdict, samples |-> r.n, coh |-> fmt(r.coh),
   mir |-> fmt(r.mir), proposals |-> Len(r.proposals), patch |-> r.patch_name,
   applied |-> r.applied]

---------------------------------------------------------------------------
(* The phase oracle: lunar_nudge.py                                        *)

\* SYNODIC, the mean length of the cycle (29.530588853 days), to the second
SynodicSeconds == 2551443

\* the cycle in clock units
Synodic == SynodicSeconds * UnitsPerSecond

\* a datetime: its wall reading in clock units counted from the reading
\* 2000-01-06 18:14:00, and its zone: none (naive) or an offset from UTC
At(seconds, aware, offset) ==
  [wall |-> seconds * UnitsPerSecond, aware |-> aware,
   off |-> offset * UnitsPerSecond]

\* REF_NEW_MOON = datetime(2000, 1, 6, 18, 14, tzinfo=utc)
REF_NEW_MOON == At(0, TRUE, 0)

\* the conversion that drops the offset instead of subtracting it
to_utc_wall(ts) == [wall |-> ts.wall, aware |-> TRUE, off |-> 0]

\* _to_utc: a naive reading is taken as UTC (replace(tzinfo=utc)), a zoned
\* one is converted (astimezone(utc)): the same instant, read in UTC
to_utc(ts) ==
  IF ~ts.aware THEN [wall |-> ts.wall, aware |-> TRUE, off |-> 0]
  ELSE [wall |-> ts.wall - ts.off, aware |-> TRUE, off |-> 0]

\* (t - REF_NEW_MOON).total_seconds(), in clock units: the subtraction of
\* two zoned datetimes compares the instants
Elapsed(t) == (t.wall - t.off) - (REF_NEW_MOON.wall - REF_NEW_MOON.off)

\* a fraction num/den, den > 0
Frac(num, den) == [num |-> num, den |-> den]

\* the remainder that takes the sign of the dividend (C's fmod)
Fmod(a, b) == IF a >= 0 THEN a % b ELSE -((-a) % b)

\* the fraction computed with the remainder that keeps the dividend's sign
phase_fraction_fmod(ts) == Frac(Fmod(Elapsed(to_utc(ts)), Synodic), Synodic)

\* phase_fraction: (d % SYNODIC) / SYNODIC with d the elapsed days; Python's
\* % takes the sign of the divisor, which is positive.  The division by
\* 86400 scales both terms and cancels in the quotient
phase_fraction(ts) == Frac(Elapsed(to_utc(ts)) % Synodic, Synodic)

PHASE_NAMES ==
  << "New Moon", "Waxing Crescent", "First Quarter", "Waxing Gibbous",
     "Full Moon", "Waning Gibbous", "Last Quarter", "Waning Crescent" >>

\* int(x): the float cut towards zero
Trunc(num, den) == IF num >= 0 THEN num \div den ELSE -((-num) \div den)

\* the index without the wrap
phase_index_nowrap(frac) == Trunc(16 * frac.num + frac.den, 2 * frac.den)

\* int(frac * 8.0 + 0.5) & 7 (the older revision: % 8): the bitwise and with
\* 7 of a two's-complement integer is its floor remainder by 8
phase_index(frac) == Trunc(16 * frac.num + frac.den, 2 * frac.den) % 8

\* phase_name: PHASE_NAMES[i]; a tuple of 8 raises IndexError beyond index 7
phase_name(frac) ==
  LET i == phase_index(frac)
  IN IF i \in 0..7 THEN PHASE_NAMES[i + 1] ELSE "IndexError"

\* the nine levers
Levers ==
  { "severance", "harmonizers", "voice_clarity", "coherence", "integration",
    "translation", "grounding", "sealing", "call_harmonizers_bias" }

\* the defaults: 1.0 for every lever, in hundredths
NoChange == [k \in Levers |-> 100]

\* n[k] = v for the listed levers
Biased(changes) ==
  [k \in Levers |-> IF k \in DOMAIN changes THEN changes[k] ELSE NoChange[k]]

\* a table of two rows, New Moon and Full Moon, the second without its
\* harmonizers entry
nudges_for_partial(name) ==
  IF name = "Full Moon" THEN Biased([severance |-> 90, call_harmonizers_bias |-> 112])
  ELSE IF name = "New Moon"
    THEN Biased([severance |-> 110, harmonizers |-> 95, grounding |-> 105])
  ELSE NoChange

\* _nudges_for: the table of the current revision; the last branch is an else
nudges_for(name) ==
  IF name = "New Moon"
    THEN Biased([severance |-> 110, harmonizers |-> 95, grounding |-> 105])
  ELSE IF name = "Waxing Crescent"
    THEN Biased([voice_clarity |-> 105, translation |-> 103])
  ELSE IF name = "First Quarter"
    THEN Biased([coherence |-> 105, grounding |-> 103])
  ELSE IF name = "Waxing Gibbous"
    THEN Biased([integration |-> 105, coherence |-> 102])
  ELSE IF name = "Full Moon"
    THEN Biased([severance |-> 90, harmonizers |-> 110,
                 call_harmonizers_bias |-> 112])
  ELSE IF name = "Waning Gibbous"
    THEN Biased([translation |-> 105, integration |-> 102])
  ELSE IF name = "Last Quarter"
    THEN Biased([grounding |-> 107, voice_clarity |-> 98])
  ELSE Biased([sealing |-> 105, severance |-> 103])

\* compute_nudges of the older revision (lunar_nudgebak 1.py): the same table
\* with n.update; a name that is no phase leaves the defaults
nudges_bak(name) ==
  IF name = "New Moon"
    THEN Biased([severance |-> 110, harmonizers |-> 95, grounding |-> 105])
  ELSE IF name = "Waxing Crescent"
    THEN Biased([voice_clarity |-> 105, translation |-> 103])
  ELSE IF name = "First Quarter"
    THEN Biased([coherence |-> 105, grounding |-> 103])
  ELSE IF name = "Waxing Gibbous"
    THEN Biased([integration |-> 105, coherence |-> 102])
  ELSE IF name = "Full Moon"
    THEN Biased([severance |-> 90, harmonizers |-> 110,
                 call_harmonizers_bias |-> 112])
  ELSE IF name = "Waning Gibbous"
    THEN Biased([translation |-> 105, integration |-> 102])
  ELSE IF name = "Last Quarter"
    THEN Biased([grounding |-> 107, voice_clarity |-> 98])
  ELSE IF name = "Waning Crescent"
    THEN Biased([sealing |-> 105, severance |-> 103])
  ELSE NoChange

\* the caps of a call: none, or a pair (lo, hi) in hundredths
NoCaps == [has |-> FALSE, lo |-> 0, hi |-> 0]
Caps(lo, hi) == [has |-> TRUE, lo |-> lo, hi |-> hi]

\* _clamp: hi if x > hi else (lo if x < lo else x)
clamp_lever(x, lo, hi) == IF x > hi THEN hi ELSE IF x < lo THEN lo ELSE x

\* compute_nudges(frac, caps): the table entry of the phase, clamped when
\* caps are given
compute_nudges(frac, caps) ==
  LET n == nudges_for(phase_name(frac))
  IN IF caps.has THEN [k \in Levers |-> clamp_lever(n[k], caps.lo, caps.hi)]
     ELSE n

---------------------------------------------------------------------------
(* The nudge applicator: mask_runtime.apply_lunar_nudges                   *)

\* Python's dicts are objects with identity.  A heap is a sequence of
\* mappings; a mapping sends each key to what it holds: nothing, a number
\* (a fraction in lowest terms), a string, None (a YAML key without a value),
\* or a reference to another mapping
ProfileKeys ==
  { "meta_gate", "gates", "coherence", "triggers", "warn_below", "sever_below",
    "stabilize_above", "early_severance_below", "call_harmonizers_below" }

NoKey == [kind |-> "absent", num |-> 0, den |-> 1]
Text == [kind |-> "str", num |-> 0, den |-> 1]
Null == [kind |-> "none", num |-> 0, den |-> 1]
Ref(id) == [kind |-> "ref", num |-> id, den |-> 1]
Number(num, den) ==
  LET g == GCD(Abs(num), den)
  IN [kind |-> "num", num |-> num \div g, den |-> den \div g]

\* a mapping with the given entries and no other key
Mapping(entries) ==
  [k \in ProfileKeys |-> IF k \in DOMAIN entries THEN entries[k] ELSE NoKey]

\* the mappings a mapping refers to
Children(heap, id) ==
  { heap[id][k].num : k \in { k \in ProfileKeys : heap[id][k].kind = "ref" } }

\* the mappings reachable from a set of mappings
RECURSIVE ReachFrom(_, _)
ReachFrom(heap, seen) ==
  LET more == UNION { Children(heap, id) : id \in seen }
  IN IF more \subseteq seen THEN seen ELSE ReachFrom(heap, seen \cup more)

Reach(heap, root) == ReachFrom(heap, {root})

\* the position of an element in an increasing enumeration of a set
Rank(S, x) == Cardinality({ y \in S : y <= x })

\* copy.copy: a new top-level mapping whose entries refer to the mappings the
\* original refers to
shallowcopy(heap, root) ==
  [heap |-> Append(heap, heap[root]), root |-> Len(heap) + 1]

\* copy.deepcopy: every mapping reachable from the root is copied once (the
\* memo keeps sharing inside the copy), and the copies refer to copies
deepcopy(heap, root) ==
  LET ids == Reach(heap, root)
      new(id) == Len(heap) + Rank(ids, id)
      old(k) == CHOOSE id \in ids : Rank(ids, id) = k
      copy(id) == [k \in ProfileKeys |->
                     IF heap[id][k].kind = "ref" THEN Ref(new(heap[id][k].num))
                     ELSE heap[id][k]]
  IN [heap |-> heap \o [k \in 1..Cardinality(ids) |-> copy(old(k))],
      root |-> new(root)]

\* a lever as the nudges mapping holds it: missing, a number in hundredths,
\* or a value float() rejects
NoLever == [kind |-> "absent", v |-> 0]
Lever(v) == [kind |-> "num", v |-> v]
BadLever == [kind |-> "str", v |-> 0]

\* nudges.get("nudges", {}) if nudges else {}: the levers of the payload
\* compute_lunar_nudges returns; None and {} have none
NoNudges == [k \in Levers |-> NoLever]
Payload(n) == [k \in Levers |-> Lever(n[k])]
Given(entries) ==
  [k \in Levers |-> IF k \in DOMAIN entries THEN entries[k] ELSE NoLever]

\* bump(val, key): float(n.get(key, 1.0)) times a numeric val; a lever float()
\* rejects, or a val that is no number, leaves val as it is
Bumps(n, val, key) == val.kind = "num" /\ n[key].kind # "str"
Multiplier(n, key) == IF n[key].kind = "num" THEN n[key].v ELSE 100
bump(n, val, key) ==
  IF Bumps(n, val, key)
  THEN Number(val.num * Multiplier(n, key), val.den * 100)
  ELSE val

\* the mapping t[a][b] when both keys are there, else 0
Path(heap, t, a, b) ==
  IF heap[t][a].kind = "ref" /\ heap[heap[t][a].num][b].kind = "ref"
  THEN heap[heap[t][a].num][b].num ELSE 0

\* `b in t[a]` and the membership tests on t[a][b] raise TypeError when the
\* value they are made on is a number or None; on a string they are substring
\* tests, which fail
PathRaises(heap, t, a, b) ==
  \/ heap[t][a].kind \in { "num", "none" }
  \/ heap[t][a].kind = "ref" /\ heap[heap[t][a].num][b].kind \in { "num", "none" }

\* the bias taken as it comes, without max(0.5, bias)
DivisorUnfloored(n) ==
  LET b == n["call_harmonizers_bias"]
  IN IF b.kind = "num" THEN b.v ELSE 100

\* max(0.5, bias) with bias = float(n.get("call_harmonizers_bias", 1.0)), and
\* 1.0 when float() rejects it
Divisor(n) ==
  LET b == n["call_harmonizers_bias"]
  IN IF b.kind = "num" THEN Max(50, b.v) ELSE 100

CoherenceKeys == { "warn_below", "sever_below", "stabilize_above" }

\* the body of apply_lunar_nudges on the copy t: the meta-gate's coherence
\* thresholds are bumped by the coherence lever, the trigger
\* early_severance_below by the severance lever, call_harmonizers_below is
\* divided by the bias; the division raises TypeError on a value that is no
\* number, and so do the membership tests on a section that is a number or
\* None.  scaled lists each field that was multiplied with its multiplier
Nudged(copy, n) ==
  LET h0 == copy.heap
      t == copy.root
      c == Path(h0, t, "meta_gate", "coherence")
      h1 == IF c = 0 THEN h0
            ELSE [h0 EXCEPT ![c] =
                    [k \in ProfileKeys |-> IF k \in CoherenceKeys
                                    THEN bump(n, h0[c][k], "coherence")
                                    ELSE h0[c][k]]]
      s1 == IF c = 0 THEN {}
            ELSE { [field |-> k, num |-> Multiplier(n, "coherence"), den |-> 100] :
                     k \in { k \in CoherenceKeys : Bumps(n, h0[c][k], "coherence") } }
      g == Path(h1, t, "gates", "triggers")
      e == IF g = 0 THEN NoKey ELSE h1[g]["early_severance_below"]
      h2 == IF g = 0 THEN h1
            ELSE [h1 EXCEPT ![g]["early_severance_below"] = bump(n, e, "severance")]
      s2 == IF g # 0 /\ Bumps(n, e, "severance")
            THEN { [field |-> "early_severance_below",
                    num |-> Multiplier(n, "severance"), den |-> 100] }
            ELSE {}
      v == IF g = 0 THEN NoKey ELSE h2[g]["call_harmonizers_below"]
      raises == \/ PathRaises(h0, t, "meta_gate", "coherence")
                \/ PathRaises(h1, t, "gates", "triggers")
                \/ v.kind \in { "str", "ref", "none" }
      h3 == IF v.kind = "num"
            THEN [h2 EXCEPT ![g]["call_harmonizers_below"] =
                    Number(v.num * 100, v.den * Divisor(n))]
            ELSE h2
      s3 == IF v.kind = "num"
            THEN { [field |-> "call_harmonizers_below", num |-> 100,
                    den |-> Divisor(n)] }
            ELSE {}
  IN [heap |-> h3, root |-> t, raised |-> raises, scaled |-> s1 \cup s2 \cup s3]

\* the applicator with a copy of the top-level mapping only
apply_shallow(heap, thresholds, n) == Nudged(shallowcopy(heap, thresholds), n)

\* apply_lunar_nudges(thresholds, nudges): t = copy.deepcopy(thresholds), the
\* rules on t, return t.  It takes no caps and clamps nothing
apply_nudges(heap, thresholds, n) == Nudged(deepcopy(heap, thresholds), n)

\* the threshold profiles the applicator is handed: each a heap with the
\* top-level mapping at 1.  Numbers are in hundredths
ProfileFull ==
  << Mapping([meta_gate |-> Ref(2), gates |-> Ref(3)]),
     Mapping([coherence |-> Ref(4)]),
     Mapping([triggers |-> Ref(5)]),
     Mapping([warn_below |-> Number(60, 100), sever_below |-> Number(40, 100),
              stabilize_above |-> Number(85, 100)]),
     Mapping([early_severance_below |-> Number(35, 100),
              call_harmonizers_below |-> Number(50, 100)]) >>

\* no gates, and a sever_below that is no number
ProfileMetaOnly ==
  << Mapping([meta_gate |-> Ref(2)]),
     Mapping([coherence |-> Ref(3)]),
     Mapping([warn_below |-> Number(60, 100), sever_below |-> Text]) >>

\* a call_harmonizers_below that is no number
ProfileTextCall ==
  << Mapping([gates |-> Ref(2)]),
     Mapping([triggers |-> Ref(3)]),
     Mapping([early_severance_below |-> Number(35, 100),
              call_harmonizers_below |-> Text]) >>

\* one mapping reached along both paths (a YAML anchor and its alias)
ProfileShared ==
  << Mapping([meta_gate |-> Ref(2), gates |-> Ref(2)]),
     Mapping([coherence |-> Ref(3), triggers |-> Ref(3)]),
     Mapping([warn_below |-> Number(60, 100),
              early_severance_below |-> Number(35, 100),
              call_harmonizers_below |-> Number(50, 100)]) >>

\* no coherence section, and triggers without early_severance_below
ProfileSparse ==
  << Mapping([meta_gate |-> Ref(2), gates |-> Ref(3)]),
     Mapping([warn_below |-> Number(60, 100)]),
     Mapping([triggers |-> Ref(4)]),
     Mapping([call_harmonizers_below |-> Number(50, 100),
              warn_below |-> Number(60, 100)]) >>

\* a meta_gate section with nothing under it, which YAML loads as None
ProfileEmptySection ==
  << Mapping([meta_gate |-> Null, gates |-> Ref(2)]),
     Mapping([triggers |-> Ref(3)]),
     Mapping([early_severance_below |-> Number(35, 100),
              call_harmonizers_below |-> Number(50, 100)]) >>

ThresholdProfiles ==
  { ProfileFull, ProfileMetaOnly, ProfileTextCall, ProfileShared, ProfileSparse,
    ProfileEmptySection }

\* the nudges a caller passes to the applicator directly
NudgeInputs ==
  { NoNudges,
    Payload(nudges_for("Full Moon")),
    Payload(nudges_for("First Quarter")),
    Given([severance |-> Lever(300), coherence |-> Lever(50),
           call_harmonizers_bias |-> Lever(20)]),
    Given([coherence |-> BadLever, call_harmonizers_bias |-> BadLever]) }

\* cfg.get("caps", {"min": 0.85, "max": 1.15}) with caps.get("min", 0.85) and
\* caps.get("max", 1.15), in hundredths
DefaultCaps == Caps(85, 115)
ConfigCaps == { DefaultCaps, Caps(95, 115), Caps(90, 95) }

\* the instants the oracle is asked about, in seconds from the reference
\* reading: the reference instant in UTC, naive, and in two other zones;
\* instants before it; one in each eighth of the cycle
EighthSeconds == SynodicSeconds \div 8
Instants ==
  { At(0, TRUE, 0), At(0, FALSE, 0), At(3600, TRUE, 3600), At(-18000, TRUE, -18000),
    At(-1, TRUE, 0), At(-1, FALSE, 0), At(-SynodicSeconds, TRUE, 0),
    At(-SynodicSeconds - 1, TRUE, 0), At(-3 * EighthSeconds, FALSE, 0),
    At(SynodicSeconds - 1, TRUE, 0), At(3600, TRUE, 7200) }
  \cup { At(k * EighthSeconds + 10, TRUE, 0) : k \in 0..7 }

\* the fractions phase_name is called with directly
Fractions ==
  { Frac(0, 1), Frac(1, 1000), Frac(999, 1000), Frac(1, 16), Frac(15, 16),
    Frac(937, 1000), Frac(1, 2), Frac(7, 16) }

\* the caps of the phase query (--caps lo hi)
QueryCaps == { NoCaps, Caps(90, 110), Caps(98, 102) }

\* compute_lunar_nudges' payload: compute_nudges(frac) without caps, then
\* each lever clamped as max(mn, min(mx, v))
lunar_payload(ts, caps) ==
  LET n == compute_nudges(phase_fraction(ts), NoCaps)
  IN [k \in Levers |-> Max(caps.lo, Min(caps.hi, n[k]))]

\* no call of the phase oracle or the applicator has been made
LunarIdle ==
  [pc |-> "idle", call |-> "", ts |-> REF_NEW_MOON, frac |-> Frac(0, 1),
   index |-> 0, name |-> "", nudges |-> NoChange, older |-> NoChange,
   caps |-> DefaultCaps, heap |-> <<>>, before |-> <<>>, arg |-> 0, ret |-> 0,
   scaled |-> {}, edits |-> 0, levers |-> NoNudges,
   cfg |-> [exists |-> FALSE, enabled |-> FALSE, log |-> TRUE]]

---------------------------------------------------------------------------
(* The loader's project tree: files by path                                *)

\* a path under the project root: the directory ("" is the root itself), the
\* file name, and for a versioned copy its suffix and the second it names
File(dir, name) == [dir |-> dir, name |-> name, tag |-> "", stamp |-> 0]
Versioned(dir, name, tag, stamp) ==
  [dir |-> dir, name |-> name, tag |-> tag, stamp |-> stamp]

\* what a file holds: a text, and whether the lunar wiring block is in it
Content(text) == [text |-> text, wired |-> FALSE]
Wired(c) == [c EXCEPT !.wired = TRUE]

\* a tree of no files
NoFiles == [p \in {} |-> Content(0)]

\* Path.exists, write_text, unlink
Exists(fs, p) == p \in DOMAIN fs
WriteText(fs, p, c) == [q \in DOMAIN fs \cup {p} |-> IF q = p THEN c ELSE fs[q]]
Unlink(fs, p) == [q \in DOMAIN fs \ {p} |-> fs[q]]

\* shutil.copy2 and shutil.move (os.rename): a file at the destination is
\* replaced
Copy2(fs, src, dst) == WriteText(fs, dst, fs[src])
Move(fs, src, dst) == Unlink(WriteText(fs, dst, fs[src]), src)

\* the directories of the files of a tree
DirsOf(fs) == { p.dir : p \in DOMAIN fs } \ {""}

\* no loader has run and no tree is followed
NoTree ==
  [rev |-> "", fs |-> NoFiles, dirs |-> {}, run |-> 0, settled |-> NoFiles,
   lost |-> {}, guard |-> ""]

---------------------------------------------------------------------------
(* State machine                                                           *)

\* a run that has not started; its locals hold placeholders.  seen is the
\* number of rows the run read; recorded, committed, wrote and order (the rank
\* of the run's store write among the store writes) record what the run did
IdleRun ==
  [pc |-> "idle", NOW |-> 0, APPLY |-> FALSE, hours |-> 0, n |-> 0,
   coh |-> NoneAvg, mir |-> NoneAvg, verdict |-> "", proposals |-> <<>>,
   patch_name |-> 0, recorded |-> FALSE, seen |-> 0, order |-> 0,
   thr |-> StoreDoc("missing", TRUE, NotAMapping, NotAMapping),
   applied |-> FALSE, committed |-> FALSE, wrote |-> {}, error |-> ""]

Terminated(r) == runs[r].pc \in {"done", "failed"}
Started(r) == runs[r].pc # "idle"

\* evaluator invocations are serialized by the caller
Serial(r) == \A q \in RunIds \ {r} : runs[q].pc = "idle" \/ Terminated(q)

Init ==
  /\ now = 0
  /\ ticks = 0
  /\ policy \in Policies
  /\ telem \in TelemetryLogs
  /\ store \in Stores
  /\ patches = [s \in {} |-> 0]
  /\ audit = <<>>
  /\ runs = [r \in RunIds |-> IdleRun]
  /\ lunar = LunarIdle
  /\ tree = NoTree

\* the clock advances: by one clock unit, or by a day.  A run reads the clock
\* once, when it starts, so an advance during a run is the same as one right
\* after it: the clock is advanced between runs only
TickSteps == {1, DayUnits}

Tick(d) ==
  /\ ticks < MaxTicks
  /\ \A q \in RunIds : runs[q].pc = "idle" \/ Terminated(q)
  /\ now' = now + d
  /\ ticks' = ticks + 1
  /\ UNCHANGED <<policy, telem, store, patches, audit, runs, lunar, tree>>

\* the process starts: the module body reads the APPLY toggle and the clock
Begin(r, apply) ==
  /\ runs[r].pc = "idle"
  /\ \A q \in RunIds : q < r => Started(q)
  /\ Serial(r)
  /\ runs' = [runs EXCEPT ![r] = [@ EXCEPT !.pc = "load", !.NOW = now, !.APPLY = apply]]
  /\ UNCHANGED <<now, ticks, policy, telem, store, patches, audit, lunar, tree>>

\* the evaluation with a missing telemetry file made fatal
EvaluatedStrict(r) ==
  IF policy.status # "ok"
  THEN [r EXCEPT !.pc = "failed", !.error = "policy"]
  ELSE IF ~telem.exists \/ ParseFails(read_jsonl(telem))
  THEN [r EXCEPT !.pc = "failed", !.error = "telemetry"]
  ELSE LET hours == WindowHours(policy)
           recent == Recent(read_jsonl(telem), r.NOW, hours)
           coh == CoherenceAvg(recent)
           mir == MirrorAvg(recent)
           n == SampleCount(recent)
           verdict == decision(coh, mir, n, MinSamples(policy),
                               RewardExpr(policy), PenaltyExpr(policy))
       IN [r EXCEPT !.pc = "record", !.hours = hours, !.n = n, !.coh = coh,
                    !.mir = mir, !.verdict = verdict,
                    !.seen = Len(read_jsonl(telem)),
                    !.proposals = Proposals(verdict, CapCall(policy), CapSever(policy))]

\* the evaluation with the window filter lost: every row read is aggregated
EvaluatedAllRows(r) ==
  IF policy.status # "ok"
  THEN [r EXCEPT !.pc = "failed", !.error = "policy"]
  ELSE IF ParseFails(read_jsonl(telem))
  THEN [r EXCEPT !.pc = "failed", !.error = "telemetry"]
  ELSE LET hours == WindowHours(policy)
           recent == read_jsonl(telem)
           coh == CoherenceAvg(recent)
           mir == MirrorAvg(recent)
           n == SampleCount(recent)
           verdict == decision(coh, mir, n, MinSamples(policy),
                               RewardExpr(policy), PenaltyExpr(policy))
       IN [r EXCEPT !.pc = "record", !.hours = hours, !.n = n, !.coh = coh,
                    !.mir = mir, !.verdict = verdict,
                    !.seen = Len(read_jsonl(telem)),
                    !.proposals = Proposals(verdict, CapCall(policy), CapSever(policy))]

\* the outcome of lines 39-86 for a run: a failure, or the run's locals
Evaluated(r) ==
  IF policy.status # "ok"
  THEN [r EXCEPT !.pc = "failed", !.error = "policy"]
  ELSE IF ParseFails(read_jsonl(telem))
  THEN [r EXCEPT !.pc = "failed", !.error = "telemetry"]
  ELSE LET hours == WindowHours(policy)
           recent == Recent(read_jsonl(telem), r.NOW, hours)
           coh == CoherenceAvg(recent)
           mir == MirrorAvg(recent)
           n == SampleCount(recent)
           verdict == decision(coh, mir, n, MinSamples(policy),
                               RewardExpr(policy), PenaltyExpr(policy))
       IN [r EXCEPT !.pc = "record", !.hours = hours, !.n = n, !.coh = coh,
                    !.mir = mir, !.verdict = verdict,
                    !.seen = Len(read_jsonl(telem)),
                    !.proposals = Proposals(verdict, CapCall(policy), CapSever(policy))]

Load(r) ==
  /\ runs[r].pc = "load"
  /\ runs' = [runs EXCEPT ![r] = Evaluated(@)]
  /\ UNCHANGED <<now, ticks, policy, telem, store, patches, audit, lunar, tree>>

\* patch_path.write_text(...): creates the file or replaces its contents
WriteFile(dir, name, doc) ==
  [f \in DOMAIN dir \cup {name} |-> IF f = name THEN doc ELSE dir[f]]

Record(r) ==
  /\ runs[r].pc = "record"
  /\ LET name == PatchName(runs[r].NOW)
         next == IF ShouldApply(runs[r]) THEN "apply" ELSE "log"
     IN /\ patches' = WriteFile(patches, name, Patch(runs[r]))
        /\ runs' = [runs EXCEPT ![r] =
                      [@ EXCEPT !.patch_name = name, !.recorded = TRUE, !.pc = next]]
  /\ UNCHANGED <<now, ticks, policy, telem, store, audit, lunar, tree>>

\* thr = yaml.safe_load(thr_path.read_text())
ApplyRead(r) ==
  /\ runs[r].pc = "apply"
  /\ runs' = [runs EXCEPT ![r] =
                IF store.status # "ok"
                THEN [@ EXCEPT !.pc = "failed", !.error = "store"]
                ELSE [@ EXCEPT !.pc = "write", !.thr = store]]
  /\ UNCHANGED <<now, ticks, policy, telem, store, patches, audit, lunar, tree>>

\* the store update done on the store as it is at the write, as under a lock
\* held from the read to the write
ApplyWriteFresh(r) ==
  /\ runs[r].pc = "write"
  /\ LET thr == store
         proposals == runs[r].proposals
     IN IF WriteRaises(thr, proposals)
        THEN /\ runs' = [runs EXCEPT ![r] = [@ EXCEPT !.pc = "failed", !.error = "keyerror"]]
             /\ UNCHANGED store
        ELSE /\ store' = [thr EXCEPT !.profiles = NewProfiles(thr, proposals)]
             /\ runs' = [runs EXCEPT ![r] =
                           [@ EXCEPT !.pc = "log", !.applied = TRUE, !.committed = TRUE,
                                     !.wrote = Writes(thr, proposals),
                                     !.order = 1 + Cardinality({q \in RunIds : runs[q].committed})]]
  /\ UNCHANGED <<now, ticks, policy, telem, patches, audit, lunar, tree>>

\* the loop over profiles and proposals, then thr_path.write_text(new_thr)
ApplyWrite(r) ==
  /\ runs[r].pc = "write"
  /\ LET thr == runs[r].thr
         proposals == runs[r].proposals
     IN IF WriteRaises(thr, proposals)
        THEN /\ runs' = [runs EXCEPT ![r] = [@ EXCEPT !.pc = "failed", !.error = "keyerror"]]
             /\ UNCHANGED store
        ELSE /\ store' = [thr EXCEPT !.profiles = NewProfiles(thr, proposals)]
             /\ runs' = [runs EXCEPT ![r] =
                           [@ EXCEPT !.pc = "log", !.applied = TRUE, !.committed = TRUE,
                                     !.wrote = Writes(thr, proposals),
                                     !.order = 1 + Cardinality({q \in RunIds : runs[q].committed})]]
  /\ UNCHANGED <<now, ticks, policy, telem, patches, audit, lunar, tree>>

\* logf.write_text(prev + line)
Log(r) ==
  /\ runs[r].pc = "log"
  /\ audit' = Append(audit, LogLine(runs[r]))
  /\ runs' = [runs EXCEPT ![r] = [@ EXCEPT !.pc = "done"]]
  /\ UNCHANGED <<now, ticks, policy, telem, store, patches, lunar, tree>>

Next ==
  \/ \E d \in TickSteps : Tick(d)
  \/ \E r \in RunIds, apply \in BOOLEAN : Begin(r, apply)
  \/ \E r \in RunIds : Load(r)
  \/ \E r \in RunIds : Record(r)
  \/ \E r \in RunIds : ApplyRead(r)
  \/ \E r \in RunIds : ApplyWrite(r)
  \/ \E r \in RunIds : Log(r)

Spec == Init /\ [][Next]_vars

---------------------------------------------------------------------------
(* Serialized runs over stores with entries that are not plain numbers    *)

\* stores whose tuned keys hold YAML booleans next to numbers and strings,
\* and one with values outside the admissible ranges and at their bounds
StoresApply ==
  { StoreDoc("ok", TRUE, Profile(Bool(TRUE), Num(30000), Num(50000)),
                         Profile(Num(60000), Bool(FALSE), Str)),
    StoreDoc("ok", TRUE, Profile(Str, Num(30000), Bool(TRUE)),
                         Profile(Num(41000), Absent, Num(50000))),
    StoreDoc("ok", TRUE, Profile(Num(30000), Num(36000), Num(50000)),
                         Profile(Num(40000), Num(35000), Num(50000))) }

\* the default policy with daily caps of 0.00003 and 0.00004
PolicySmallCaps == [PolicyDefault EXCEPT !.cap_call = Some(3), !.cap_sever = Some(4)]

\* runtime/self_learning.yaml as the loader seeds it when it is missing
\* (ensure_self_learning_policy): a 24h window, min_samples 20, caps 0.04 and
\* 0.02, and predicates over the names coherence and mirror_residual
PolicySeeded ==
  [status |-> "ok", window |-> Some(Window(24, "h")), min_samples |-> Some(20),
   reward |-> Some(Expr("and", Atom("coherence", ">=", 88),
                               Atom("mirror_residual", "<=", 35))),
   penalty |-> Some(Expr("or", Atom("coherence", "<", 55),
                               Atom("mirror_residual", ">", 50))),
   cap_call |-> Some(4000), cap_sever |-> Some(2000)]

InitApply ==
  /\ now = 0
  /\ ticks = 0
  /\ policy \in {PolicyDefault, PolicyTight, PolicySmallCaps, PolicySeeded}
  /\ telem \in { t \in TelemetryLogs : t.exists /\ Len(t.rows) = 2 }
  /\ store \in StoresApply
  /\ patches = [s \in {} |-> 0]
  /\ audit = <<>>
  /\ runs = [r \in RunIds |-> IdleRun]
  /\ lunar = LunarIdle
  /\ tree = NoTree

SpecApply == InitApply /\ [][Next]_vars

---------------------------------------------------------------------------
(* The writers of thread/telemetry.jsonl                                   *)

\* the longest log the writers are followed to
MaxRows == 2

\* the lines of the log; a missing file has none
Lines(file) == IF file.exists THEN file.rows ELSE <<>>

\* the append done as a write: the line replaces what the file held
AppendRecordTruncating(row) == telem' = [exists |-> TRUE, rows |-> <<row>>]

\* open(tp, "a") and one write of one line: the file is created when missing
AppendRecord(row) == telem' = [exists |-> TRUE, rows |-> Append(Lines(telem), row)]

\* no evaluator run is between its start and its end.  A run reads the log
\* once, so a write during a run is the same as one right before or after it
Quiescent == \A q \in RunIds : runs[q].pc = "idle" \/ Terminated(q)

\* the turns finish_turn is called with: (coherence, mirror_residual, samples)
Turns == { <<92, 20, 25>>, <<40, 60, 25>> }

\* mask_runtime.log_telemetry (the fallback; the evaluator defines none): one
\* record with the fields timestamp, coherence, mirror_residual, samples
log_telemetry(coherence, mirror_residual, samples) ==
  /\ Quiescent
  /\ Len(Lines(telem)) < MaxRows
  /\ AppendRecord(Row("timestamp", now, Some(coherence), Some(mirror_residual),
                      Some(samples)))
  /\ UNCHANGED <<now, ticks, policy, store, patches, audit, runs, lunar, tree>>

\* runtime/lunar_nudge.yaml as compute_lunar_nudges finds it
LunarConfigs ==
  { [exists |-> FALSE, enabled |-> FALSE, log |-> TRUE],
    [exists |-> TRUE, enabled |-> FALSE, log |-> TRUE],
    [exists |-> TRUE, enabled |-> TRUE, log |-> FALSE],
    [exists |-> TRUE, enabled |-> TRUE, log |-> TRUE] }

\* mask_runtime.compute_lunar_nudges: with the hook enabled and its logging
\* on, one record with timestamp and event; otherwise the log is left alone
compute_lunar_nudges(cfg) ==
  /\ Quiescent
  /\ Len(Lines(telem)) < MaxRows
  /\ IF cfg.exists /\ cfg.enabled /\ cfg.log
     THEN AppendRecord([Row("timestamp", now, Missing, Missing, Missing)
                          EXCEPT !.event = "lunar_nudge"])
     ELSE UNCHANGED telem
  /\ UNCHANGED <<now, ticks, policy, store, patches, audit, runs, lunar, tree>>

\* overlays.log: the event with a timestamp put in front, appended as one line
log(event) ==
  AppendRecord([Row("timestamp", now, Missing, Missing, Missing) EXCEPT !.event = event])

\* overlays.cmd_run: an agent the catalog does not list ends the process
\* before anything is logged
cmd_run(known) ==
  /\ Quiescent
  /\ Len(Lines(telem)) < MaxRows
  /\ IF known THEN log("pantheon12.invoke") ELSE UNCHANGED telem
  /\ UNCHANGED <<now, ticks, policy, store, patches, audit, runs, lunar, tree>>

\* the loader's ensure_thread_telemetry: an empty file, when there is none
ensure_thread_telemetry ==
  /\ Quiescent
  /\ telem' = IF telem.exists THEN telem ELSE [exists |-> TRUE, rows |-> <<>>]
  /\ UNCHANGED <<now, ticks, policy, store, patches, audit, runs, lunar, tree>>

\* the logs the writers start from
TelemetrySeeds ==
  { [exists |-> FALSE, rows |-> <<>>],
    \* a row an earlier producer stamped "ts"
    [exists |-> TRUE, rows |-> << Row("ts", 0, Some(94), Some(18), Some(25)) >>],
    \* a line that is not JSON, then a good row
    [exists |-> TRUE, rows |->
       << CorruptLine, Row("ts", 0, Some(91), Some(21), Some(30)) >>],
    \* a good row, then a line that is JSON but no mapping
    [exists |-> TRUE, rows |->
       << Row("ts", 0, Some(91), Some(21), Some(30)), ScalarLine >>],
    \* a good row, then a row whose ts does not parse
    [exists |-> TRUE, rows |->
       << Row("ts", 0, Some(91), Some(21), Some(30)),
          [Row("ts", 0, Some(90), Some(20), Some(30)) EXCEPT !.tsok = FALSE] >>],
    \* a row of one sample, then an event record stamped "ts": no metrics
    [exists |-> TRUE, rows |->
       << Row("ts", 0, Some(94), Some(18), Some(1)),
          [Row("ts", 0, Missing, Missing, Missing) EXCEPT !.event = "lunar_nudge"] >>] }

InitTelem ==
  /\ now = 0
  /\ ticks = 0
  /\ policy = PolicyTight
  /\ telem \in TelemetrySeeds
  /\ store = StoreDoc("ok", TRUE, Profile(Num(60000), Num(30000), Num(50000)),
                      Profile(Num(60000), Num(30000), Num(50000)))
  /\ patches = [s \in {} |-> 0]
  /\ audit = <<>>
  /\ runs = [r \in RunIds |-> IdleRun]
  /\ lunar = LunarIdle
  /\ tree = NoTree

\* between the runs and the writes the clock moves by days
NextTelem ==
  \/ Tick(DayUnits)
  \/ \E r \in RunIds : Begin(r, FALSE)
  \/ \E r \in RunIds : Load(r)
  \/ \E r \in RunIds : Record(r)
  \/ \E r \in RunIds : Log(r)
  \/ \E t \in Turns : log_telemetry(t[1], t[2], t[3])
  \/ \E cfg \in LunarConfigs : compute_lunar_nudges(cfg)
  \/ \E known \in BOOLEAN : cmd_run(known)
  \/ ensure_thread_telemetry

\* the evaluator, run without apply authorization, and the writers of its
\* telemetry, side by side
SpecTelem == InitTelem /\ [][NextTelem]_vars

---------------------------------------------------------------------------
(* Evaluator processes nobody serializes                                   *)

\* the process starts while others may be running: the script takes no lock
BeginUnserialized(r, apply) ==
  /\ runs[r].pc = "idle"
  /\ \A q \in RunIds : q < r => Started(q)
  /\ runs' = [runs EXCEPT ![r] = [@ EXCEPT !.pc = "load", !.NOW = now, !.APPLY = apply]]
  /\ UNCHANGED <<now, ticks, policy, telem, store, patches, audit, lunar, tree>>

\* scenario A: a day of telemetry that earns the verdict reward under the
\* default policy, and a store with both tuned keys inside their ranges
InitConc ==
  /\ now = 0
  /\ ticks = 0
  /\ policy = PolicyDefault
  /\ telem = [exists |-> TRUE, rows |->
                << Row("ts", -HalfDay, Some(90), Some(22), Missing),
                   Row("ts", 0, Some(94), Some(18), Some(25)) >>]
  /\ store = StoreDoc("ok", TRUE, Profile(Num(60000), Num(30000), Num(50000)),
                      Profile(Num(42000), Num(34500), Absent))
  /\ patches = [s \in {} |-> 0]
  /\ audit = <<>>
  /\ runs = [r \in RunIds |-> IdleRun]
  /\ lunar = LunarIdle
  /\ tree = NoTree

NextConc ==
  \/ \E r \in RunIds, apply \in BOOLEAN : BeginUnserialized(r, apply)
  \/ \E r \in RunIds : Load(r)
  \/ \E r \in RunIds : Record(r)
  \/ \E r \in RunIds : ApplyRead(r)
  \/ \E r \in RunIds : ApplyWrite(r)
  \/ \E r \in RunIds : Log(r)

SpecConc == InitConc /\ [][NextConc]_vars

---------------------------------------------------------------------------
(* The phase bias: queries of the oracle and calls of the applicator       *)

\* the longest run of edits a caller makes to a returned profile
MaxEdits == 2

\* the most mappings a heap holds: a profile of five and its copy
MaxHeap == 10

\* lunar_nudge.sample(ts, caps): the snapshot phase_fraction, phase_name,
\* nudges.  older is what the older revision's sample returns for the phase
sample(ts, caps) ==
  /\ lunar.pc = "idle"
  /\ lunar' = [lunar EXCEPT !.pc = "sampled", !.call = "sample", !.ts = ts,
                 !.frac = phase_fraction(ts),
                 !.index = phase_index(phase_fraction(ts)),
                 !.name = phase_name(phase_fraction(ts)),
                 !.nudges = compute_nudges(phase_fraction(ts), caps),
                 !.older = nudges_bak(phase_name(phase_fraction(ts))),
                 !.caps = caps]
  /\ UNCHANGED <<now, ticks, policy, telem, store, patches, audit, runs, tree>>

\* a call of phase_name with a fraction that comes from elsewhere
classify(frac) ==
  /\ lunar.pc = "idle"
  /\ lunar' = [lunar EXCEPT !.pc = "named", !.call = "phase_name",
                 !.frac = frac, !.index = phase_index(frac),
                 !.name = phase_name(frac)]
  /\ UNCHANGED <<now, ticks, policy, telem, store, patches, audit, runs, tree>>

\* what a call of the applicator leaves: the heap with the copy, the result
\* (none when the call raised) and the multipliers it used
Applied(profile, n, caps, call) ==
  LET r == apply_nudges(profile, 1, n)
  IN [lunar EXCEPT !.pc = IF r.raised THEN "raised" ELSE "returned",
        !.call = call, !.nudges = [k \in Levers |-> Multiplier(n, k)], !.levers = n,
        !.caps = caps, !.before = profile, !.heap = r.heap, !.arg = 1,
        !.ret = IF r.raised THEN 0 ELSE r.root, !.scaled = r.scaled]

\* a direct call apply_lunar_nudges(thresholds, nudges)
apply_lunar_nudges(profile, n) ==
  /\ lunar.pc = "idle"
  /\ lunar' = Applied(profile, n, DefaultCaps, "apply")
  /\ UNCHANGED <<now, ticks, policy, telem, store, patches, audit, runs, tree>>

\* the wrapper with a hook that logs whatever the log toggle says
adjust_logging_always(profile, cfg, caps, ts) ==
  /\ lunar.pc = "idle"
  /\ cfg.exists /\ cfg.enabled
  /\ lunar' = [Applied(profile, Payload(lunar_payload(ts, caps)), caps, "adjust")
                 EXCEPT !.cfg = cfg, !.ts = ts]
  /\ AppendRecord([Row("timestamp", now, Missing, Missing, Missing)
                    EXCEPT !.event = "lunar_nudge"])
  /\ UNCHANGED <<now, ticks, policy, store, patches, audit, runs, tree>>

\* adjust_thresholds_with_lunar(thresholds, project_root) at the instant ts:
\* compute_lunar_nudges reads runtime/lunar_nudge.yaml; without the file, or
\* with the hook off, the thresholds are returned as they came (the same
\* object).  Otherwise the payload is logged to the telemetry log unless the
\* log toggle is off, and the applicator is called with it
adjust_thresholds_with_lunar(profile, cfg, caps, ts) ==
  /\ lunar.pc = "idle"
  /\ IF cfg.exists /\ cfg.enabled
     THEN /\ lunar' = [Applied(profile, Payload(lunar_payload(ts, caps)), caps, "adjust")
                         EXCEPT !.cfg = cfg, !.ts = ts,
                                !.frac = phase_fraction(ts),
                                !.index = phase_index(phase_fraction(ts)),
                                !.name = phase_name(phase_fraction(ts))]
          /\ IF cfg.log
             THEN AppendRecord([Row("timestamp", now, Missing, Missing, Missing)
                                  EXCEPT !.event = "lunar_nudge"])
             ELSE UNCHANGED telem
     ELSE /\ lunar' = [lunar EXCEPT !.pc = "returned", !.call = "off",
                         !.cfg = cfg, !.before = profile, !.heap = profile, !.arg = 1,
                         !.ret = 1]
          /\ UNCHANGED telem
  /\ UNCHANGED <<now, ticks, policy, store, patches, audit, runs, tree>>

\* the numeric fields of the mappings a caller reaches from a profile
NumericFields(heap, root) ==
  { <<id, k>> \in Reach(heap, root) \X ProfileKeys : heap[id][k].kind = "num" }

\* the caller changes a field of the profile it got back
CallerEdit(id, k) ==
  /\ lunar.pc = "returned"
  /\ lunar.edits < MaxEdits
  /\ id <= Len(lunar.heap)
  /\ <<id, k>> \in NumericFields(lunar.heap, lunar.ret)
  /\ lunar' = [lunar EXCEPT !.heap[id][k] = Number(lunar.edits + 1, 1),
                            !.edits = @ + 1]
  /\ UNCHANGED <<now, ticks, policy, telem, store, patches, audit, runs, tree>>

InitLunar ==
  /\ now = 0
  /\ ticks = 0
  /\ policy = PolicyDefault
  /\ telem \in { [exists |-> FALSE, rows |-> <<>>],
                 [exists |-> TRUE, rows |-> << Row("ts", 0, Some(94), Some(18), Some(25)) >>] }
  /\ store = StoreDoc("ok", TRUE, Profile(Num(60000), Num(30000), Num(50000)),
                      Profile(Num(42000), Num(34500), Absent))
  /\ patches = [s \in {} |-> 0]
  /\ audit = <<>>
  /\ runs = [r \in RunIds |-> IdleRun]
  /\ lunar = LunarIdle
  /\ tree = NoTree

NextLunar ==
  \/ \E ts \in Instants, caps \in QueryCaps : sample(ts, caps)
  \/ \E frac \in Fractions : classify(frac)
  \/ \E profile \in ThresholdProfiles, n \in NudgeInputs : apply_lunar_nudges(profile, n)
  \/ \E profile \in ThresholdProfiles, cfg \in LunarConfigs, caps \in ConfigCaps,
        ts \in Instants : adjust_thresholds_with_lunar(profile, cfg, caps, ts)
  \/ \E id \in 1..MaxHeap, k \in ProfileKeys : CallerEdit(id, k)

SpecLunar == InitLunar /\ [][NextLunar]_vars

---------------------------------------------------------------------------
(* phase_name on the doubles next to the bin boundaries                    *)

\* how many doubles to each side of a sixteenth are followed
MaxUlps == 2

\* the spacing of the doubles in the binade of n * unit, in units of
\* 2^-53 * unit, for n in 1..31: twice the largest power of two up to n
Grid(n) ==
  IF n < 2 THEN 2 ELSE IF n < 4 THEN 4 ELSE IF n < 8 THEN 8 ELSE IF n < 16 THEN 16 ELSE 32

\* the spacing just below n * unit: that of the binade below when n is a
\* power of two
GridBelow(n) == IF n \in {1, 2, 4, 8, 16} THEN Grid(n) \div 2 ELSE Grid(n)

\* the double j places above (below, for j < 0) k/16, as k sixteenths and an
\* offset in units of 2^-57
Near(k, j) == [k |-> k, off |-> IF j >= 0 THEN j * Grid(k) ELSE j * GridBelow(k)]

\* the doubles of [0, 1) next to the sixteenths; next to 0 the ones from it on
Doubles ==
  { Near(k, j) : <<k, j>> \in { x \in (0..15) \X (-MaxUlps..MaxUlps) : x[1] > 0 \/ x[2] >= 0 } }

\* frac * 8.0 + 0.5: the product is exact (a power of two), so the sum is
\* (k + 1)/2 + off * 2^-54 rounded to the nearest double, a tie going to the
\* even mantissa; the result as halves h and an offset in units of 2^-54
TimesEightPlusHalf(x) ==
  LET h == x.k + 1
      g == IF x.off >= 0 THEN Grid(h) ELSE GridBelow(h)
      q == x.off \div g
      r == x.off % g
      up == 2 * r > g \/ (2 * r = g /\ q % 2 # 0)
  IN [h |-> h, off |-> IF up THEN (q + 1) * g ELSE q * g]

\* int(y) of a non-negative double next to h/2
IntOf(y) ==
  IF y.h % 2 = 1 THEN (y.h - 1) \div 2
  ELSE IF y.off >= 0 THEN y.h \div 2 ELSE y.h \div 2 - 1

\* i & 7: the three low bits of a non-negative integer
BitAnd7(i) == (i % 2) + 2 * ((i \div 2) % 2) + 4 * ((i \div 4) % 2)

\* phase_name of the current revision and of the older one, on a double
phase_name_double(x) == PHASE_NAMES[BitAnd7(IntOf(TimesEightPlusHalf(x))) + 1]
phase_name_bak(x) == PHASE_NAMES[(IntOf(TimesEightPlusHalf(x)) % 8) + 1]

\* one call of phase_name in each revision
name_phase ==
  /\ lunar.pc = "given"
  /\ lunar' = [lunar EXCEPT !.pc = "named", !.name = phase_name_double(lunar.x),
                            !.older = phase_name_bak(lunar.x)]
  /\ UNCHANGED <<now, ticks, policy, telem, store, patches, audit, runs, tree>>

InitPhase ==
  /\ now = 0
  /\ ticks = 0
  /\ policy = PolicyDefault
  /\ telem = [exists |-> FALSE, rows |-> <<>>]
  /\ store = StoreDoc("ok", TRUE, Profile(Num(60000), Num(30000), Num(50000)),
                      Profile(Num(42000), Num(34500), Absent))
  /\ patches = [s \in {} |-> 0]
  /\ audit = <<>>
  /\ runs = [r \in RunIds |-> IdleRun]
  /\ \E x \in Doubles : lunar = [pc |-> "given", x |-> x, name |-> "", older |-> ""]
  /\ tree = NoTree

NextPhase == name_phase

SpecPhase == InitPhase /\ [][NextPhase]_vars

---------------------------------------------------------------------------
(* The loader, thoth_loader bak 8.py                                       *)

\* the most loader runs followed on one tree
MaxLoads == 2

\* DIRS
DIRS ==
  { "instructions", "thread", "scaffolding", "memory", "runtime", "tools",
    "engine", "schemas" }

\* the names of STAGE_FIRST the model follows, in the list's order: an engine
\* config, the runtime config and two memory documents
STAGE_FIRST == << "trap_seeds.yaml", "runtime.yaml", "glossary.md", "prompts.md" >>

\* CANON: the directory of the canonical place of a name
CANON(name) ==
  CASE name = "trap_seeds.yaml" -> "engine"
    [] name = "runtime.yaml" -> "runtime"
    [] name = "glossary.md" -> "memory"
    [] name = "prompts.md" -> "memory"

\* special_mirrors, for the same names: the engine configs are not among them
special_mirrors == << "runtime.yaml", "glossary.md", "prompts.md" >>

\* MEMORY_DOCS, for the same names
MEMORY_DOCS == << File("memory", "glossary.md"), File("memory", "prompts.md") >>

FINGERPRINT_FILE == File("", "memory_fingerprint.json")

\* the directories rglob may list first
WalkDirs == { "engine", "runtime", "memory", "docs" }

\* the text the loader seeds memory/prompts.md with
SeedPrompts == Content(9)

\* ensure_dirs: each directory of DIRS is made when missing
ensure_dirs(dirs) == dirs \cup DIRS

\* _rglob_first(name): the first file of that name rglob yields, in the
\* order the file system lists directories; first[name] is the directory
\* listed first among those that hold one
Matches(fs, name) == { p \in DOMAIN fs : p.name = name /\ p.tag = "" }
rglob_first(fs, name, first) ==
  IF name \in DOMAIN first /\ File(first[name], name) \in Matches(fs, name)
  THEN File(first[name], name)
  ELSE CHOOSE p \in Matches(fs, name) : TRUE

\* the special mirrors: a canonical file is copied to the root when the root
\* has none of that name
RECURSIVE Mirror(_, _)
Mirror(fs, names) ==
  IF names = <<>> THEN fs
  ELSE LET name == Head(names)
           src == File(CANON(name), name)
           dst == File("", name)
       IN Mirror(IF Exists(fs, src) /\ ~Exists(fs, dst) THEN Copy2(fs, src, dst)
                 ELSE fs, Tail(names))

\* the general stage pass: a name the root lacks is copied there from the
\* first place rglob finds it
RECURSIVE Stage(_, _, _)
Stage(fs, names, first) ==
  IF names = <<>> THEN fs
  ELSE LET name == Head(names)
           root_target == File("", name)
       IN Stage(IF ~Exists(fs, root_target) /\ Matches(fs, name) # {}
                THEN Copy2(fs, rglob_first(fs, name, first), root_target)
                ELSE fs, Tail(names), first)

\* stage_files_to_root
stage_files_to_root(fs, first) == Stage(Mirror(fs, special_mirrors), STAGE_FIRST, first)

\* normalize_moves: a root file moves to its canonical place unless a file is
\* there already; then the root file stays where it is
RECURSIVE normalize_moves(_, _)
normalize_moves(fs, names) ==
  IF names = <<>> THEN fs
  ELSE LET name == Head(names)
           src == File("", name)
           dst == File(CANON(name), name)
       IN normalize_moves(IF Exists(fs, src) /\ ~Exists(fs, dst) THEN Move(fs, src, dst)
                          ELSE fs, Tail(names))

\* the sha256 over the memory documents present, in the order of MEMORY_DOCS
RECURSIVE Digest(_, _)
Digest(fs, docs) ==
  IF docs = <<>> THEN 0
  ELSE (IF Exists(fs, Head(docs)) THEN fs[Head(docs)].text ELSE 0)
       + 10 * Digest(fs, Tail(docs))

\* ensure_memory_docs: memory/prompts.md is seeded when missing, and the
\* fingerprint file is written anew (its update time is left out)
ensure_memory_docs(fs) ==
  LET prompts == File("memory", "prompts.md")
      seeded == IF Exists(fs, prompts) THEN fs ELSE WriteText(fs, prompts, SeedPrompts)
  IN WriteText(seeded, FINGERPRINT_FILE, Content(Digest(seeded, MEMORY_DOCS)))

\* patch_runtime_for_lunar: the wiring block is appended to
\* runtime/runtime.yaml when the file is there and does not mention it
patch_runtime_for_lunar(fs) ==
  LET rt == File("runtime", "runtime.yaml")
  IN IF Exists(fs, rt) /\ ~fs[rt].wired THEN WriteText(fs, rt, Wired(fs[rt])) ELSE fs

\* the files of one run of main, from the files before it
Loaded(fs, first) ==
  patch_runtime_for_lunar(
    ensure_memory_docs(
      normalize_moves(stage_files_to_root(fs, first), STAGE_FIRST)))

\* main: ensure_dirs, stage_files_to_root, normalize_moves,
\* ensure_memory_docs, ensure_thread_telemetry, patch_runtime_for_lunar.
\* settled keeps the files the first run left
main_bak8(first) ==
  /\ tree.rev = "bak8"
  /\ tree.run < MaxLoads
  /\ tree' = [tree EXCEPT !.fs = Loaded(tree.fs, first),
                          !.dirs = ensure_dirs(tree.dirs),
                          !.run = @ + 1,
                          !.settled = IF tree.run = 0 THEN Loaded(tree.fs, first)
                                      ELSE @]
  /\ telem' = IF telem.exists THEN telem ELSE [exists |-> TRUE, rows |-> <<>>]
  /\ UNCHANGED <<now, ticks, policy, store, patches, audit, runs, lunar>>

\* a tree with the given files
TreeOf(rev, fs) ==
  [rev |-> rev, fs |-> fs, dirs |-> DirsOf(fs), run |-> 0, settled |-> NoFiles,
   lost |-> {}, guard |-> ""]

\* the files of a tree from the text each place holds (0: no file there)
Placed(places) ==
  LET there == { i \in 1..Len(places) : places[i][2] # 0 }
  IN [p \in { places[i][1] : i \in there } |->
        Content(places[CHOOSE i \in there : places[i][1] = p][2])]

\* the trees the loader is started on: glossary.md and trap_seeds.yaml at the
\* root, at their canonical place, and under docs/; runtime/runtime.yaml
\* missing, without the wiring, or with it
Trees8 ==
  { TreeOf("bak8",
      LET fs == Placed(<< <<File("", "glossary.md"), g[1]>>,
                          <<File("memory", "glossary.md"), g[2]>>,
                          <<File("docs", "glossary.md"), g[3]>>,
                          <<File("", "trap_seeds.yaml"), t[1]>>,
                          <<File("engine", "trap_seeds.yaml"), t[2]>>,
                          <<File("runtime", "runtime.yaml"), IF rt = 0 THEN 0 ELSE 5>> >>)
      IN IF rt = 2 THEN WriteText(fs, File("runtime", "runtime.yaml"), Wired(Content(5)))
         ELSE fs) :
      g \in {0, 1} \X {0, 1, 2} \X {0, 2}, t \in {0, 3} \X {0, 3, 4}, rt \in {0, 1, 2} }

InitLoader ==
  /\ now = 0
  /\ ticks = 0
  /\ policy = PolicyDefault
  /\ telem \in { [exists |-> FALSE, rows |-> <<>>],
                 [exists |-> TRUE, rows |-> << Row("ts", 0, Some(94), Some(18), Some(25)) >>] }
  /\ store = StoreDoc("ok", TRUE, Profile(Num(60000), Num(30000), Num(50000)),
                      Profile(Num(42000), Num(34500), Absent))
  /\ patches = [s \in {} |-> 0]
  /\ audit = <<>>
  /\ runs = [r \in RunIds |-> IdleRun]
  /\ lunar = LunarIdle
  /\ tree \in Trees8

NextLoader == \E first \in [{ "trap_seeds.yaml", "glossary.md" } -> WalkDirs] : main_bak8(first)

SpecLoader == InitLoader /\ [][NextLoader]_vars

---------------------------------------------------------------------------
(* The activation guard, activate_guard.py, on the trees of the loader    *)
(* bak 8.  guard is what the last call of the guard printed: "" before    *)
(* the first call                                                          *)

\* MEM
MEM == File("memory", "prompts.md")

\* the texts a user gives memory/prompts.md
PromptTexts == { 7, 8 }

\* hashlib.sha256 over the bytes of one file: texts are told apart by it
Sha(text) == 1000 + text

\* what "files" holds in memory_fingerprint.json.  ensure_memory_docs writes
\* the list of the names present next to one combined sha256 ("names"), and it
\* writes the file on every run; a file in the layout the guard reads, a
\* mapping from a path to a mapping with its sha256, is one put there by hand
\* ("pins")
FingerprintLayout(t) == IF t.run > 0 THEN "names" ELSE "pins"

\* lines 14-26: without either file the pins are missing; on a list
\* fp.get("files", {}).get raises AttributeError, caught at line 21; a
\* recorded sha256 that is not that of memory/prompts.md is a mismatch.
\* Every outcome but "ok" ends the process with status 2
Preflight(t) ==
  IF ~(Exists(t.fs, FINGERPRINT_FILE) /\ Exists(t.fs, MEM)) THEN "pins missing"
  ELSE IF FingerprintLayout(t) = "names" THEN "parse error"
  ELSE IF t.fs[FINGERPRINT_FILE].text # Sha(t.fs[MEM].text) THEN "mismatch"
  ELSE "ok"

\* one call of the guard
activate_guard ==
  /\ tree.rev = "bak8"
  /\ tree' = [tree EXCEPT !.guard = Preflight(tree)]
  /\ UNCHANGED <<now, ticks, policy, telem, store, patches, audit, runs, lunar>>

\* the user changes memory/prompts.md
edit_prompts(text) ==
  /\ tree.rev = "bak8"
  /\ Exists(tree.fs, MEM)
  /\ tree.fs[MEM].text # text
  /\ tree' = [tree EXCEPT !.fs = WriteText(@, MEM, Content(text))]
  /\ UNCHANGED <<now, ticks, policy, telem, store, patches, audit, runs, lunar>>

\* the user removes memory/prompts.md
drop_prompts ==
  /\ tree.rev = "bak8"
  /\ Exists(tree.fs, MEM)
  /\ tree' = [tree EXCEPT !.fs = Unlink(@, MEM)]
  /\ UNCHANGED <<now, ticks, policy, telem, store, patches, audit, runs, lunar>>

\* the trees of the loader, and the same trees with memory/prompts.md and a
\* fingerprint file written by hand that pins it
TreesGuard ==
  Trees8 \cup
  { TreeOf("bak8", WriteText(WriteText(t.fs, MEM, Content(7)),
                             FINGERPRINT_FILE, Content(Sha(7)))) : t \in Trees8 }

InitGuard ==
  /\ now = 0
  /\ ticks = 0
  /\ policy = PolicyDefault
  /\ telem = [exists |-> FALSE, rows |-> <<>>]
  /\ store = StoreDoc("ok", TRUE, Profile(Num(60000), Num(30000), Num(50000)),
                      Profile(Num(42000), Num(34500), Absent))
  /\ patches = [s \in {} |-> 0]
  /\ audit = <<>>
  /\ runs = [r \in RunIds |-> IdleRun]
  /\ lunar = LunarIdle
  /\ tree \in TreesGuard

NextGuard ==
  \/ \E first \in [{ "trap_seeds.yaml", "glossary.md" } -> WalkDirs] : main_bak8(first)
  \/ \E text \in PromptTexts : edit_prompts(text)
  \/ drop_prompts
  \/ activate_guard

\* loader runs, calls of the guard and the user's changes to
\* memory/prompts.md, in any order
SpecGuard == InitGuard /\ [][NextGuard]_vars

---------------------------------------------------------------------------
(* The loader, thoth_loader bak 6.py                                       *)

\* M, for the names the model follows, in the mapping's order: root name ->
\* the directory of its canonical place
MigratedNames == << "trap_seeds.yaml", "runtime.yaml" >>
MigrateTo(name) ==
  CASE name = "trap_seeds.yaml" -> "engine"
    [] name = "runtime.yaml" -> "runtime"

\* ARCH
ARCH == "scaffolding/archive"

\* the texts the loader seeds files with
SeedPromptsMemory == Content(14)
SeedLunarConfig == Content(15)
SeedRuntime == Content(16)
SeedPolicy == Content(17)

\* migrate_to_expected_locations: a root file goes to its canonical place;
\* when a file is there already, an identical root file is removed and a
\* differing one is moved to the archive under <name>.<second>.drift
RECURSIVE migrate_to_expected_locations(_, _, _)
migrate_to_expected_locations(fs, names, second) ==
  IF names = <<>> THEN fs
  ELSE LET name == Head(names)
           src == File("", name)
           dst == File(MigrateTo(name), name)
           bak == Versioned(ARCH, name, "drift", second)
           done == IF ~Exists(fs, src) THEN fs
                   ELSE IF ~Exists(fs, dst) THEN Move(fs, src, dst)
                   ELSE IF fs[src] = fs[dst] THEN Unlink(fs, src)
                   ELSE Move(fs, src, bak)
       IN migrate_to_expected_locations(done, Tail(names), second)

\* migrate_self_learning_tools: the evaluator moves from the root into
\* engine/ when engine/ has none (mask_runtime.py has left the root by then)
migrate_self_learning_tools(fs) ==
  LET src == File("", "self_learning_evaluator.py")
      dst == File("engine", "self_learning_evaluator.py")
  IN IF Exists(fs, src) /\ ~Exists(fs, dst) THEN Move(fs, src, dst) ELSE fs

\* the memory documents promote_memory_docs looks for, the ones followed
wanted == { "glossary.md" }

\* the directories os.walk visits outside memory/, the root first
WalkOrder == << "", "docs" >>

\* promote_memory_docs: the walk.  A wanted name that memory/ held at the
\* start, or that was handled in a directory visited before, is not pending
RECURSIVE PromoteWalk(_, _, _)
PromoteWalk(fs, dirs, results) ==
  IF dirs = <<>> THEN fs
  ELSE LET pending == wanted \ results
           found == { name \in pending : Exists(fs, File(Head(dirs), name)) }
           step(f, name) ==
             LET src == File(Head(dirs), name)
                 dest == File("memory", name)
                 incoming == Versioned("memory", name, "incoming", 0)
             IN IF ~Exists(f, dest) THEN Move(f, src, dest)
                ELSE IF f[src] # f[dest] THEN Move(f, src, incoming)
                ELSE Unlink(f, src)
           \* the names of one directory touch different files
           next == IF "glossary.md" \in found THEN step(fs, "glossary.md") ELSE fs
       IN PromoteWalk(next, Tail(dirs), results \cup found)

promote_memory_docs(fs) ==
  PromoteWalk(fs, WalkOrder, { name \in wanted : Exists(fs, File("memory", name)) })

\* sync_runtime_paths: with both runtime.yaml files there and differing, the
\* nested one is copied to runtime.yaml.bak.<second> and the root one copied
\* over it; with one of them, it is copied to the other place
sync_runtime_paths(fs, second) ==
  LET root_rt == File("", "runtime.yaml")
      nested_rt == File("runtime", "runtime.yaml")
      stamped == Versioned("runtime", "runtime.yaml", "bak", second)
  IN IF Exists(fs, root_rt) /\ Exists(fs, nested_rt)
     THEN IF fs[root_rt] = fs[nested_rt] THEN fs
          ELSE Copy2(Copy2(fs, nested_rt, stamped), root_rt, nested_rt)
     ELSE IF Exists(fs, root_rt) THEN Copy2(fs, root_rt, nested_rt)
     ELSE IF Exists(fs, nested_rt) THEN Copy2(fs, nested_rt, root_rt)
     ELSE fs

\* _ensure_lunar: a lunar_nudge.py at the root is copied to tools/, whatever
\* is there; runtime/lunar_nudge.yaml and runtime/runtime.yaml are seeded when
\* missing; the wiring block is appended to runtime.yaml when it has none
ensure_lunar(fs) ==
  LET src_py == File("", "lunar_nudge.py")
      dst_py == File("tools", "lunar_nudge.py")
      cfg == File("runtime", "lunar_nudge.yaml")
      ry == File("runtime", "runtime.yaml")
      f1 == IF Exists(fs, src_py) THEN Copy2(fs, src_py, dst_py) ELSE fs
      f2 == IF Exists(f1, cfg) THEN f1 ELSE WriteText(f1, cfg, SeedLunarConfig)
      f3 == IF Exists(f2, ry) THEN f2 ELSE WriteText(f2, ry, SeedRuntime)
  IN IF f3[ry].wired THEN f3 ELSE WriteText(f3, ry, Wired(f3[ry]))

\* init_prompts_md and ensure_self_learning_policy: seeds, when missing
init_prompts_md(fs) ==
  IF Exists(fs, File("memory", "prompts.md")) THEN fs
  ELSE WriteText(fs, File("memory", "prompts.md"), SeedPromptsMemory)

ensure_self_learning_policy(fs) ==
  IF Exists(fs, File("runtime", "self_learning.yaml")) THEN fs
  ELSE WriteText(fs, File("runtime", "self_learning.yaml"), SeedPolicy)

\* the files of one run of main at the given second, from the files before
Migrated(fs, second) ==
  ensure_self_learning_policy(
    init_prompts_md(
      ensure_lunar(
        sync_runtime_paths(
          promote_memory_docs(
            migrate_self_learning_tools(
              migrate_to_expected_locations(fs, MigratedNames, second))),
          second))))

\* a content is still in the tree: some file holds it, or holds it with the
\* wiring block appended
Survives(c, fs) ==
  \E p \in DOMAIN fs : fs[p] = c \/ (fs[p].text = c.text /\ fs[p].wired)

\* main: ensure_dirs, migrate_to_expected_locations,
\* migrate_self_learning_tools, promote_memory_docs, sync_runtime_paths,
\* _ensure_lunar, init_prompts_md, ensure_scaffolding (its telemetry seed),
\* ensure_self_learning_policy.  The manifest files the loader rewrites on
\* every run are not followed.  lost collects what a run did not keep
main_bak6 ==
  /\ tree.rev = "bak6"
  /\ tree.run < MaxLoads
  /\ LET after == Migrated(tree.fs, Stamp(now))
     IN tree' = [tree EXCEPT !.fs = after,
                   !.dirs = ensure_dirs(tree.dirs) \cup {ARCH},
                   !.run = @ + 1,
                   !.lost = @ \cup { tree.fs[p] : p \in { q \in DOMAIN tree.fs :
                                                          ~Survives(tree.fs[q], after) } }]
  /\ telem' = IF telem.exists THEN telem ELSE [exists |-> TRUE, rows |-> <<>>]
  /\ UNCHANGED <<now, ticks, policy, store, patches, audit, runs, lunar>>

\* what the user drops at the root between two runs: a new revision of a
\* document the tree already holds elsewhere
Drops == { <<"trap_seeds.yaml", 8>>, <<"lunar_nudge.py", 12>> }

UserDrop(name, text) ==
  /\ tree.rev = "bak6"
  /\ tree.run >= 1
  /\ ~Exists(tree.fs, File("", name))
  /\ ~Survives(Content(text), tree.fs)
  /\ tree' = [tree EXCEPT !.fs = WriteText(@, File("", name), Content(text))]
  /\ UNCHANGED <<now, ticks, policy, telem, store, patches, audit, runs, lunar>>

\* the trees the loader is started on
Trees6 ==
  { TreeOf("bak6",
      Placed(<< <<File("", "trap_seeds.yaml"), t[1]>>,
                <<File("engine", "trap_seeds.yaml"), t[2]>>,
                <<File("", "runtime.yaml"), rt[1]>>,
                <<File("runtime", "runtime.yaml"), rt[2]>>,
                <<File("", "glossary.md"), g[1]>>,
                <<File("memory", "glossary.md"), g[2]>>,
                <<File("docs", "glossary.md"), g[3]>>,
                <<File("", "lunar_nudge.py"), ln[1]>>,
                <<File("tools", "lunar_nudge.py"), ln[2]>>,
                <<File("", "self_learning_evaluator.py"), ev>> >>)) :
      t \in {0, 3} \X {0, 3, 4}, rt \in {0, 6} \X {0, 5},
      g \in {0, 1} \X {0, 1} \X {0, 2}, ln \in {0, 11} \X {0, 11, 13}, ev \in {0, 18} }

InitMigrate ==
  /\ now = 0
  /\ ticks = 0
  /\ policy = PolicyDefault
  /\ telem = [exists |-> FALSE, rows |-> <<>>]
  /\ store = StoreDoc("ok", TRUE, Profile(Num(60000), Num(30000), Num(50000)),
                      Profile(Num(42000), Num(34500), Absent))
  /\ patches = [s \in {} |-> 0]
  /\ audit = <<>>
  /\ runs = [r \in RunIds |-> IdleRun]
  /\ lunar = LunarIdle
  /\ tree \in Trees6

NextMigrate ==
  \/ main_bak6
  \/ \E d \in Drops : UserDrop(d[1], d[2])
  \/ \E d \in TickSteps : Tick(d)

SpecMigrate == InitMigrate /\ [][NextMigrate]_vars

---------------------------------------------------------------------------
(* What the properties speak about                                         *)

\* the run got past lines 39-86: it has a verdict and its proposals
HasVerdict(r) == runs[r].pc \in {"record", "apply", "write", "log", "done"} \/ runs[r].recorded

\* the run whose patch document the file `name` holds: its last writer
LastWriter(r) ==
  /\ runs[r].recorded
  /\ \A q \in RunIds : (q > r /\ runs[q].recorded) => runs[q].patch_name # runs[r].patch_name

\* runs are serialized, so the lines of the log are those of the completed runs,
\* in the order of their ids
LineOf(r) == audit[Cardinality({q \in RunIds : q <= r /\ runs[q].pc = "done"})]

\* the delta a run applied to a key of a profile
Committed(r, profile, key) ==
  LET ws == {w \in runs[r].wrote : w.profile = profile /\ w.key = key}
  IN IF ws = {} THEN 0 ELSE LET w == CHOOSE w \in ws : TRUE IN w.delta

RECURSIVE DayTotal(_, _, _, _)
DayTotal(upto, day, profile, key) ==
  IF upto = 0 THEN 0
  ELSE DayTotal(upto - 1, day, profile, key)
       + (IF DayOf(runs[upto].NOW) = day THEN Committed(upto, profile, key) ELSE 0)

CapOf(key) == IF key = CALL THEN CapCall(policy) ELSE CapSever(policy)

InRange(key, v) ==
  /\ key = CALL => (CallFloor <= v /\ v <= CallCeil)
  /\ key = SEVER => (SeverFloor <= v /\ v <= SeverCeil)

---------------------------------------------------------------------------
(* Properties                                                              *)

\* C1: a step of a run that was not given the APPLY toggle never changes the
\* threshold store, whatever the run's verdict and proposals
C1_NoApplyNoStoreChange ==
  [][\A r \in RunIds :
       (runs'[r] # runs[r] /\ ~runs'[r].APPLY) => store' = store]_vars

C1_Witness ==
  \E r \in RunIds :
    /\ runs[r].pc = "done" /\ ~runs[r].APPLY
    /\ runs[r].verdict = "reward" /\ runs[r].proposals # <<>>
    /\ ~runs[r].committed

\* C2 (as claimed): for every day, profile and tuned key, the magnitude of the
\* sum of the deltas that the runs started that day applied to the key is at
\* most the magnitude of the daily cap configured for the key
C2_DailyCapRespected ==
  \A d \in {DayOf(runs[r].NOW) : r \in RunIds} :
    \A p \in ProfileNames, k \in {CALL, SEVER} :
      Abs(DayTotal(MaxRuns, d, p, k)) <= Abs(CapOf(k))

\* C3: once a run has committed, every numeric call_harmonizers_below and
\* early_severance_below of every profile of the store lies in its admissible
\* range, and so does every value a run wrote
C3_WrittenInRange ==
  /\ \A r \in RunIds : \A w \in runs[r].wrote :
       w.key \in {CALL, SEVER} /\ InRange(w.key, w.new)
  /\ (\E r \in RunIds : runs[r].committed) =>
       \A p \in ProfileNames, k \in {CALL, SEVER} :
         Writable(store.profiles[p], k) => InRange(k, store.profiles[p].f[k].v)

C3_Witness ==
  \E r \in RunIds :
    /\ runs[r].committed
    /\ \E w \in runs[r].wrote : w.key = CALL /\ w.old > CallCeil /\ w.new = CallCeil
    /\ \E w \in runs[r].wrote : w.key = SEVER /\ w.old < SeverFloor

\* C4 (as claimed): the patches directory holds one document per run that
\* wrote one, so no run replaced the document of an earlier run
C4_OneRecordPerRun ==
  Cardinality(DOMAIN patches) = Cardinality({r \in RunIds : runs[r].recorded})

C6_FailsBeforeAnyWrite ==
  \A r \in RunIds :
    runs[r].pc = "failed" => (~runs[r].recorded /\ ~runs[r].committed)

\* C7 (as claimed): for every run that has ended and wrote a patch document,
\* the log holds one line naming that document per run that wrote it
C7_OneLogLinePerRecord ==
  \A r \in RunIds :
    (Terminated(r) /\ runs[r].recorded) =>
      Cardinality({i \in 1..Len(audit) : audit[i].patch = runs[r].patch_name})
        = Cardinality({q \in RunIds : Terminated(q) /\ runs[q].recorded
                                       /\ runs[q].patch_name = runs[r].patch_name})

\* C8: a run whose sample count is below min_samples has the verdict
\* insufficient and no proposals, whatever the averages and the predicates
C8_SampleGate ==
  \A r \in RunIds :
    (HasVerdict(r) /\ runs[r].n < MinSamples(policy)) =>
      /\ runs[r].verdict = "insufficient"
      /\ runs[r].proposals = <<>>
      /\ LastWriter(r) =>
           /\ patches[runs[r].patch_name].meta.verdict = "insufficient"
           /\ patches[runs[r].patch_name].proposals = <<>>

C8_Witness ==
  \E r \in RunIds :
    /\ runs[r].pc = "done" /\ runs[r].n < MinSamples(policy) /\ runs[r].n > 0
    /\ runs[r].coh.def /\ runs[r].mir.def
    /\ EvalExpr(RewardExpr(policy), runs[r].coh, runs[r].mir) = "true"
    /\ runs[r].verdict = "insufficient"

\* C9: in every patch document the proposals are empty iff the verdict is
\* insufficient or neutral
C9_EmptyIffNoVerdict ==
  \A name \in DOMAIN patches :
    (patches[name].proposals = <<>>) <=>
      (patches[name].meta.verdict \in {"insufficient", "neutral"})

C9_Witness ==
  /\ \E name \in DOMAIN patches :
       patches[name].meta.verdict = "penalty" /\ Len(patches[name].proposals) = 2
  /\ \E name \in DOMAIN patches :
       patches[name].meta.verdict = "insufficient" /\ patches[name].proposals = <<>>

\* C10: with both averages defined and enough samples, the verdict is reward
\* whenever the reward predicate is true, penalty exactly when the reward
\* predicate is false and the penalty predicate true, neutral when both are false
C10_VerdictOrder ==
  \A r \in RunIds :
    (HasVerdict(r) /\ runs[r].coh.def /\ runs[r].mir.def
       /\ runs[r].n >= MinSamples(policy)) =>
      LET rw == EvalExpr(RewardExpr(policy), runs[r].coh, runs[r].mir)
          pn == EvalExpr(PenaltyExpr(policy), runs[r].coh, runs[r].mir)
      IN /\ rw = "true" => runs[r].verdict = "reward"
         /\ (runs[r].verdict = "penalty") <=> (rw = "false" /\ pn = "true")
         /\ (rw = "false" /\ pn = "false") => runs[r].verdict = "neutral"

C10_Witness ==
  \E r \in RunIds :
    /\ HasVerdict(r) /\ runs[r].n >= MinSamples(policy)
    /\ EvalExpr(RewardExpr(policy), runs[r].coh, runs[r].mir) = "true"
    /\ EvalExpr(PenaltyExpr(policy), runs[r].coh, runs[r].mir) = "true"
    /\ runs[r].coh.def /\ runs[r].mir.def
    /\ runs[r].verdict = "reward"

\* the evaluation of the predicates of a run raised: the reward predicate did,
\* or it was false and the penalty predicate did
PredicateRaised(r) ==
  /\ HasVerdict(r) /\ runs[r].coh.def /\ runs[r].mir.def
  /\ runs[r].n >= MinSamples(policy)
  /\ LET rw == EvalExpr(RewardExpr(policy), runs[r].coh, runs[r].mir)
         pn == EvalExpr(PenaltyExpr(policy), runs[r].coh, runs[r].mir)
     IN rw = "error" \/ (rw = "false" /\ pn = "error")

\* C11: a run whose reward or penalty predicate raises has the verdict neutral
\* and no proposals, never fails and never writes the store; once it has ended
\* its patch document and its log line are written
C11_PredicateErrorIsNeutral ==
  \A r \in RunIds :
    PredicateRaised(r) =>
      /\ runs[r].verdict = "neutral" /\ runs[r].proposals = <<>>
      /\ runs[r].pc # "failed" /\ runs[r].error = ""
      /\ ~runs[r].committed /\ runs[r].wrote = {}
      /\ runs[r].pc \in {"log", "done"} =>
           /\ runs[r].recorded /\ runs[r].patch_name \in DOMAIN patches
           /\ patches[runs[r].patch_name].proposals = <<>>
      /\ runs[r].pc = "done" =>
           /\ LineOf(r) = LogLine(runs[r])
           /\ LineOf(r).verdict = "neutral" /\ ~LineOf(r).applied

\* an apply-authorized run that ended after its reward predicate was false and
\* its penalty predicate raised
C11_Witness ==
  \E r \in RunIds :
    /\ PredicateRaised(r) /\ runs[r].pc = "done" /\ runs[r].APPLY
    /\ EvalExpr(RewardExpr(policy), runs[r].coh, runs[r].mir) = "false"

\* the delta a run proposes for a key; 0 when it proposes none
DeltaFor(r, key) ==
  LET ps == {i \in 1..Len(runs[r].proposals) : KeyOf(runs[r].proposals[i]) = key}
  IN IF ps = {} THEN 0 ELSE runs[r].proposals[CHOOSE i \in ps : TRUE].delta

\* the keys a run proposes a delta for, in the order of its proposals
ProposedKeys(r) == [i \in 1..Len(runs[r].proposals) |-> KeyOf(runs[r].proposals[i])]

\* C12: a run with the verdict reward proposes exactly two deltas:
\* call_harmonizers_below gets -min(0.02, cap_call) and early_severance_below
\* gets +min(0.01, cap_sever), which is -0.02 and +0.01 when the caps are at
\* least 0.02 and 0.01; the patch document of the run holds the same deltas
C12_RewardDeltas ==
  \A r \in RunIds :
    (HasVerdict(r) /\ runs[r].verdict = "reward") =>
      /\ ProposedKeys(r) = <<CALL, SEVER>>
      /\ DeltaFor(r, CALL) = -(IF CapCall(policy) < StepCall THEN CapCall(policy) ELSE StepCall)
      /\ DeltaFor(r, SEVER) = (IF CapSever(policy) < StepSever THEN CapSever(policy) ELSE StepSever)
      /\ (CapCall(policy) >= StepCall /\ CapSever(policy) >= StepSever) =>
           (DeltaFor(r, CALL) = -StepCall /\ DeltaFor(r, SEVER) = StepSever)
      /\ LastWriter(r) => patches[runs[r].patch_name].proposals = runs[r].proposals

\* a recorded reward run under a cap below the step of 0.02
C12_Witness ==
  \E r \in RunIds :
    /\ runs[r].recorded /\ runs[r].verdict = "reward"
    /\ CapCall(policy) < StepCall /\ CapCall(policy) > 0
    /\ DeltaFor(r, CALL) = -CapCall(policy)

\* C13: a run with the verdict penalty proposes, key by key, the negation of
\* what the verdict reward gets under the same policy: call_harmonizers_below
\* gets +min(0.02, cap) and early_severance_below gets -min(0.01, cap)
C13_PenaltyNegatesReward ==
  \A r \in RunIds :
    (HasVerdict(r) /\ runs[r].verdict = "penalty") =>
      LET rw == Proposals("reward", CapCall(policy), CapSever(policy))
      IN /\ Len(runs[r].proposals) = Len(rw)
         /\ \A i \in 1..Len(rw) :
              /\ runs[r].proposals[i].path = rw[i].path
              /\ runs[r].proposals[i].delta = -rw[i].delta
         /\ DeltaFor(r, CALL) = Min(StepCall, CapCall(policy))
         /\ DeltaFor(r, SEVER) = -Min(StepSever, CapSever(policy))

\* a recorded penalty run whose deltas are not zero
C13_Witness ==
  \E r \in RunIds :
    /\ runs[r].recorded /\ runs[r].verdict = "penalty"
    /\ DeltaFor(r, CALL) > 0 /\ DeltaFor(r, SEVER) < 0

C16_MissingLogIsFatal ==
  ~telem.exists =>
    /\ \A r \in RunIds : ~HasVerdict(r) /\ (Terminated(r) => runs[r].pc = "failed")
    /\ DOMAIN patches = {} /\ audit = <<>>

\* C16 (amended): with the telemetry file missing and the policy readable, a
\* run goes on as over an empty log: it never fails, its verdict is
\* insufficient over 0 samples with no proposals, it leaves the store alone,
\* and once it has ended its patch document and its log line are written
C16_MissingLogIsEmpty ==
  \A r \in RunIds :
    (~telem.exists /\ policy.status = "ok" /\ runs[r].pc \notin {"idle", "load"}) =>
      /\ runs[r].pc # "failed" /\ runs[r].error = ""
      /\ runs[r].verdict = "insufficient" /\ runs[r].proposals = <<>>
      /\ runs[r].n = 0 /\ ~runs[r].coh.def /\ ~runs[r].mir.def
      /\ ~runs[r].committed /\ runs[r].wrote = {}
      /\ runs[r].pc \in {"log", "done"} =>
           /\ runs[r].recorded /\ runs[r].patch_name \in DOMAIN patches
           /\ patches[runs[r].patch_name].meta.verdict = "insufficient"
      /\ runs[r].pc = "done" => LineOf(r) = LogLine(runs[r])

\* an apply-authorized run that ended with the telemetry file missing
C16_Witness ==
  \E r \in RunIds :
    /\ ~telem.exists /\ runs[r].pc = "done" /\ runs[r].APPLY
    /\ runs[r].verdict = "insufficient" /\ Len(audit) > 0

\* the rows a run read: the log only grows at its end (C19), so they are the
\* first `seen` rows of what read_jsonl gives now
LoadedRows(r) == SubSeq(read_jsonl(telem), 1, runs[r].seen)

\* the rows of a run's log that lie in its window by the documented format: a
\* mapping whose time field, "timestamp" as the runtime writes it or "ts", holds
\* an instant not before NOW - window
DocumentedRecent(r) ==
  LET tcut == runs[r].NOW - runs[r].hours * SecondsPerHour * UnitsPerSecond
  IN SelectSeq(LoadedRows(r),
               LAMBDA x : x.line = "mapping" /\ x.key \in {"ts", "timestamp"}
                             /\ x.tsok /\ x.t >= tcut)

\* C15 (as claimed): the sample count and the averages of a run are those of
\* the records of its log whose documented time field lies in the window
C15_DocumentedRecordsAggregated ==
  \A r \in RunIds :
    HasVerdict(r) =>
      /\ runs[r].n = SampleCount(DocumentedRecent(r))
      /\ runs[r].coh = CoherenceAvg(DocumentedRecent(r))
      /\ runs[r].mir = MirrorAvg(DocumentedRecent(r))

\* the lines of a log that are good records: mappings whose time field parses
GoodRows(rows) == SelectSeq(rows, LAMBDA x : x.line = "mapping" /\ x.tsok)

\* C17 (as claimed): whatever bad records the log holds, a run does not fail
\* on its telemetry, and its sample count, averages and verdict are those of
\* the log with the bad records removed
C17_BadRecordsSkipped ==
  \A r \in RunIds :
    /\ runs[r].error # "telemetry"
    /\ HasVerdict(r) =>
         LET recent == Recent(GoodRows(LoadedRows(r)), runs[r].NOW, runs[r].hours)
         IN /\ runs[r].n = SampleCount(recent)
            /\ runs[r].coh = CoherenceAvg(recent)
            /\ runs[r].mir = MirrorAvg(recent)
            /\ runs[r].verdict = decision(runs[r].coh, runs[r].mir, runs[r].n,
                                          MinSamples(policy), RewardExpr(policy),
                                          PenaltyExpr(policy))

\* C19: every step leaves the log as it was or appends one line to it (a
\* missing file counting as an empty log), so the earlier log stays a prefix of
\* the later one; a turn logged, a lunar nudge logged and an overlay invocation
\* logged each append exactly one line, and the evaluator appends none
C19_TelemetryAppendOnly ==
  [][ /\ \/ Lines(telem') = Lines(telem)
         \/ /\ Len(Lines(telem')) = Len(Lines(telem)) + 1
            /\ SubSeq(Lines(telem'), 1, Len(Lines(telem))) = Lines(telem)
      /\ telem.exists => telem'.exists
      /\ (\E t \in Turns : log_telemetry(t[1], t[2], t[3])) =>
           Len(Lines(telem')) = Len(Lines(telem)) + 1
      /\ (\E cfg \in LunarConfigs :
            cfg.exists /\ cfg.enabled /\ cfg.log /\ compute_lunar_nudges(cfg)) =>
           Len(Lines(telem')) = Len(Lines(telem)) + 1
      /\ cmd_run(TRUE) => Len(Lines(telem')) = Len(Lines(telem)) + 1
      /\ (runs' # runs) => telem' = telem ]_vars

\* a log that holds a line a writer appended behind a line that was there
\* before, read by a run that has ended
C19_Witness ==
  /\ Len(Lines(telem)) = MaxRows
  /\ \E i \in 1..Len(Lines(telem)) : Lines(telem)[i].key = "ts"
  /\ \E i \in 1..Len(Lines(telem)) : Lines(telem)[i].key = "timestamp"
  /\ \E r \in RunIds : runs[r].pc = "done"

\* C20: two runs whose windows hold the same records, under the same policy,
\* have the same verdict, averages, sample count and proposed deltas
C20_Deterministic ==
  \A r1, r2 \in RunIds :
    (HasVerdict(r1) /\ HasVerdict(r2)
       /\ Recent(LoadedRows(r1), runs[r1].NOW, runs[r1].hours)
            = Recent(LoadedRows(r2), runs[r2].NOW, runs[r2].hours)) =>
      /\ runs[r1].verdict = runs[r2].verdict
      /\ runs[r1].coh = runs[r2].coh /\ runs[r1].mir = runs[r2].mir
      /\ runs[r1].n = runs[r2].n
      /\ runs[r1].proposals = runs[r2].proposals

\* two runs over the same non-empty window that read logs of different length
C20_Witness ==
  \E r1, r2 \in RunIds :
    /\ r1 # r2 /\ runs[r1].recorded /\ runs[r2].recorded
    /\ runs[r1].seen # runs[r2].seen
    /\ Recent(LoadedRows(r1), runs[r1].NOW, runs[r1].hours) # <<>>
    /\ Recent(LoadedRows(r1), runs[r1].NOW, runs[r1].hours)
         = Recent(LoadedRows(r2), runs[r2].NOW, runs[r2].hours)
    /\ runs[r1].verdict = "reward" /\ runs[r2].verdict = "reward"

\* the run wrote the store last
LastStoreWriter(r) ==
  /\ runs[r].committed
  /\ \A q \in RunIds : runs[q].committed => runs[q].order <= runs[r].order

\* the number a store document holds under a key of a profile
ValueIn(doc, name, key) == doc.profiles[name].f[key].v

\* C18: the store holds what its last writer computed from the document it
\* read, whatever was written in between.  So when the last writer r2 read the
\* same document as an earlier writer r1 (both read before either wrote), the
\* store differs from that document by r2's deltas only and r1's are lost; when
\* r2 read what r1 wrote, the store holds both runs' deltas, each clamped
C18_LastWriterWins ==
  \A r1, r2 \in RunIds :
    (r1 # r2 /\ runs[r1].committed /\ LastStoreWriter(r2)) =>
      /\ store.profiles = NewProfiles(runs[r2].thr, runs[r2].proposals)
      /\ runs[r2].thr = runs[r1].thr =>
           \A key \in {CALL, SEVER} :
             ValueIn(store, "default", key)
               = NewValue(key, ValueIn(runs[r1].thr, "default", key), DeltaFor(r2, key))
      /\ runs[r2].thr.profiles = NewProfiles(runs[r1].thr, runs[r1].proposals) =>
           \A key \in {CALL, SEVER} :
             ValueIn(store, "default", key)
               = NewValue(key, NewValue(key, ValueIn(runs[r1].thr, "default", key),
                                        DeltaFor(r1, key)),
                          DeltaFor(r2, key))

\* two apply-authorized runs have written the store after reading the same
\* document, and the store is one delta of 0.02 away from that document
C18_Witness ==
  \E r1, r2 \in RunIds :
    /\ r1 # r2 /\ runs[r1].committed /\ LastStoreWriter(r2)
    /\ runs[r1].order = 1 /\ runs[r2].order = 2
    /\ runs[r2].thr = runs[r1].thr
    /\ DeltaFor(r1, CALL) = -StepCall /\ DeltaFor(r2, CALL) = -StepCall
    /\ ValueIn(store, "default", CALL) = ValueIn(runs[r1].thr, "default", CALL) - StepCall

\* the values a field holds over the rows that carry it
Carried(rows, field) ==
  LET xs == SelectSeq(rows, LAMBDA x : x[field].has)
  IN [i \in 1..Len(xs) |-> xs[i][field].v]

\* the fraction a is the mean of the numbers xs; no mean of no numbers
IsMeanOf(a, xs) ==
  IF Len(xs) = 0 THEN ~a.def
  ELSE a.def /\ a.num * Len(xs) = a.den * SumSeq(xs)

\* C30: over the rows of a run's window, coherence_avg is the mean of the
\* coherence values of the rows that carry one, mirror_residual_avg the mean of
\* the mirror_residual values of the rows that carry one, and the sample count
\* is the sum of the rows' samples, a row without samples counting 1
C30_Aggregation ==
  \A r \in RunIds :
    HasVerdict(r) =>
      LET recent == Recent(read_jsonl(telem), runs[r].NOW, runs[r].hours)
      IN /\ IsMeanOf(runs[r].coh, Carried(recent, "coherence"))
         /\ IsMeanOf(runs[r].mir, Carried(recent, "mirror_residual"))
         /\ runs[r].n = SumSeq([i \in 1..Len(recent) |->
                                  IF recent[i].samples.has THEN recent[i].samples.v ELSE 1])

\* a recorded run over a window with a row that carries coherence but neither
\* mirror_residual nor samples: the averages run over different rows and the
\* sample count is not the number of rows
C30_Witness ==
  \E r \in RunIds :
    /\ runs[r].recorded
    /\ LET recent == Recent(read_jsonl(telem), runs[r].NOW, runs[r].hours)
       IN /\ \E i \in 1..Len(recent) :
               /\ recent[i].coherence.has /\ ~recent[i].mirror_residual.has
               /\ ~recent[i].samples.has
          /\ Len(Carried(recent, "coherence")) > Len(Carried(recent, "mirror_residual"))
          /\ Len(Carried(recent, "mirror_residual")) > 0
          /\ runs[r].n > Len(recent)

\* the oracle was asked about an instant
Asked == lunar.call \in {"sample", "adjust"}

\* C24: for every instant, before or after the reference epoch, the phase
\* fraction is at least 0 and less than 1.
C24_FractionInUnitInterval ==
  Asked => 0 <= lunar.frac.num /\ lunar.frac.num < lunar.frac.den

\* an instant before the reference epoch, not a whole number of cycles away
C24_Witness ==
  /\ lunar.call = "sample"
  /\ Elapsed(to_utc(lunar.ts)) < 0
  /\ lunar.frac.num > 0

\* C25: phase_name is total and cyclic: for every fraction in [0, 1) the
\* table index is one of 0..7 and the name is the table's entry there; the
\* fractions within a sixteenth of either end of the cycle, 0.999 and 0.001
\* among them, are New Moon.
C25_PhaseNameTotalCyclic ==
  (lunar.call \in {"sample", "phase_name", "adjust"}
     /\ 0 <= lunar.frac.num /\ lunar.frac.num < lunar.frac.den) =>
    /\ lunar.index \in 0..7
    /\ lunar.name = PHASE_NAMES[lunar.index + 1]
    /\ (16 * lunar.frac.num >= 15 * lunar.frac.den => lunar.name = "New Moon")
    /\ (16 * lunar.frac.num < lunar.frac.den => lunar.name = "New Moon")

\* the fraction 0.999 was classified
C25_Witness ==
  /\ lunar.call = "phase_name"
  /\ lunar.frac = Frac(999, 1000)
  /\ lunar.name = "New Moon"

\* the datetime denotes 2000-01-06T18:14:00Z: its reading is that of the
\* reference when naive, and that reading shifted by its offset when zoned
IsReferenceEpoch(ts) == IF ts.aware THEN ts.wall - ts.off = 0 ELSE ts.wall = 0

\* C26: at the reference epoch the phase fraction is exactly 0 and the phase
\* is New Moon, whether the instant is given in UTC, naive or in another zone.
C26_EpochIsNewMoon ==
  (lunar.call = "sample" /\ IsReferenceEpoch(lunar.ts)) =>
    lunar.frac.num = 0 /\ lunar.name = "New Moon"

\* the epoch given as 19:14 at +01:00
C26_Witness ==
  /\ lunar.call = "sample"
  /\ lunar.ts = At(3600, TRUE, 3600)
  /\ lunar.frac.num = 0
  /\ lunar.name = "New Moon"

\* the table of the specification: the levers each phase changes, in
\* hundredths
TableRow(name) ==
  CASE name = "New Moon" -> [severance |-> 110, harmonizers |-> 95, grounding |-> 105]
    [] name = "Waxing Crescent" -> [voice_clarity |-> 105, translation |-> 103]
    [] name = "First Quarter" -> [coherence |-> 105, grounding |-> 103]
    [] name = "Waxing Gibbous" -> [integration |-> 105, coherence |-> 102]
    [] name = "Full Moon" ->
         [severance |-> 90, harmonizers |-> 110, call_harmonizers_bias |-> 112]
    [] name = "Waning Gibbous" -> [translation |-> 105, integration |-> 102]
    [] name = "Last Quarter" -> [grounding |-> 107, voice_clarity |-> 98]
    [] name = "Waning Crescent" -> [sealing |-> 105, severance |-> 103]

\* C27: for each phase name the lookup returns the multipliers of the
\* specification's table, 1.0 for each of the nine levers the row does not
\* list, and the two revisions of the table return the same.
C27_BiasTable ==
  (lunar.call = "sample" /\ ~lunar.caps.has) =>
    /\ DOMAIN lunar.nudges = Levers
    /\ \A k \in Levers :
         lunar.nudges[k] = IF k \in DOMAIN TableRow(lunar.name)
                           THEN TableRow(lunar.name)[k] ELSE 100
    /\ lunar.older = lunar.nudges

\* the Full Moon row was looked up
C27_Witness ==
  /\ lunar.call = "sample" /\ ~lunar.caps.has
  /\ lunar.name = "Full Moon"
  /\ lunar.nudges["call_harmonizers_bias"] = 112
  /\ lunar.nudges["grounding"] = 100

\* the applicator ran: called directly, or by the wrapper with the hook on
ApplicatorRan == lunar.call \in {"apply", "adjust"}

\* C22: the applicator never mutates its input: after the call every mapping
\* of the thresholds argument holds what it held before the call, at every
\* nesting level, also after the caller has changed the returned profile; the
\* result shares no mapping with the argument.
C22_InputNotMutated ==
  ApplicatorRan =>
    /\ \A id \in 1..Len(lunar.before) : lunar.heap[id] = lunar.before[id]
    /\ lunar.pc = "returned" =>
         Reach(lunar.heap, lunar.ret) \cap Reach(lunar.heap, lunar.arg) = {}

\* a nested field was scaled and the caller then edited the result twice
C22_Witness ==
  /\ lunar.call = "apply"
  /\ lunar.before = ProfileShared
  /\ lunar.scaled # {}
  /\ lunar.edits = 2
  /\ lunar.heap[lunar.ret] # lunar.heap[lunar.arg]

\* C21: every multiplier by which the applicator scales a profile field lies
\* within the caps [lo, hi] in force: those of the hook's configuration, or
\* [0.85, 1.15] when the caller gives none.
C21_MultipliersWithinCaps ==
  (ApplicatorRan /\ lunar.pc = "returned") =>
    \A s \in lunar.scaled :
      /\ lunar.caps.lo * s.den <= 100 * s.num
      /\ 100 * s.num <= lunar.caps.hi * s.den

\* the call is the wrapper's
Adjusting == lunar.pc = "idle" /\ lunar'.call \in {"adjust", "off"}

\* C23 as claimed: computing and applying the phase bias leaves the threshold
\* store, the telemetry log, the proposal records and the audit log as they
\* were.
C23_NoPersistedEffect ==
  [][Adjusting => store' = store /\ telem' = telem /\ patches' = patches
                    /\ audit' = audit]_vars

\* C23: computing and applying the phase bias leaves the threshold store, the
\* proposal records and the audit log as they were; the telemetry log gets
\* one more line, a lunar_nudge record after the lines it had, exactly when
\* the hook is enabled and its log toggle is not off, and is untouched
\* otherwise.
C23_OnlyTelemetryAppended ==
  [][Adjusting =>
       /\ store' = store /\ patches' = patches /\ audit' = audit
       /\ IF lunar'.cfg.exists /\ lunar'.cfg.enabled /\ lunar'.cfg.log
          THEN /\ Len(Lines(telem')) = Len(Lines(telem)) + 1
               /\ SubSeq(Lines(telem'), 1, Len(Lines(telem))) = Lines(telem)
               /\ Lines(telem')[Len(Lines(telem'))].event = "lunar_nudge"
          ELSE telem' = telem]_vars

\* the wrapper ran with the hook on and logging, on a log that had a line
C23_Witness ==
  /\ lunar.call = "adjust"
  /\ lunar.cfg.log
  /\ Len(Lines(telem)) = 2
  /\ Lines(telem)[2].event = "lunar_nudge"

\* C28: the loader is idempotent: a second run leaves the files, by path and
\* content, that the first run left (the fingerprint's update time apart).
C28_SecondRunChangesNothing ==
  (tree.rev = "bak8" /\ tree.run >= 2) => tree.fs = tree.settled

\* C29: the loader is non-destructive over any number of runs: every content
\* a file holds before a run is held by some file after it.
C29_NothingLost == tree.rev = "bak6" => tree.lost = {}

\* whether the run proposes a delta for a key
HasDelta(r, key) == \E i \in 1..Len(runs[r].proposals) : KeyOf(runs[r].proposals[i]) = key

\* the step in which run r writes the store back
Commits(r) == ~runs[r].committed /\ runs'[r].committed

\* C31: in the step that writes the store back, for every profile and every
\* delta whose key holds a numeric value v in the document the run read, the
\* value the store then holds is round4(min(ceiling, max(floor, v + delta))),
\* a multiple of 0.0001, v being the value read at the start of the apply
C31_WrittenValue ==
  [][\A r \in RunIds : Commits(r) =>
       \A p \in ProfileNames, k \in {CALL, SEVER} :
         (HasDelta(r, k) /\ Writable(runs[r].thr.profiles[p], k)) =>
           LET v == runs[r].thr.profiles[p].f[k].v
               lo == IF k = CALL THEN CallFloor ELSE SeverFloor
               hi == IF k = CALL THEN CallCeil ELSE SeverCeil
               new == store'.profiles[p].f[k]
           IN /\ new.kind = "num"
              /\ new.v % RoundUnit = 0
              /\ 2 * Abs(new.v - Min(hi, Max(lo, v + DeltaFor(r, k)))) <= RoundUnit]_vars

C31_Witness ==
  \E r \in RunIds :
    /\ runs[r].committed
    /\ \E w \in runs[r].wrote : (w.old + w.delta) % RoundUnit # 0 /\ w.new % RoundUnit = 0
    /\ \E w \in runs[r].wrote : w.new \notin {w.old + w.delta, w.old}

\* C32: the step that writes the store back changes, against the document the
\* run read, only call_harmonizers_below and early_severance_below of profiles
\* that are mappings and hold the key with a numeric value: no key is added,
\* a profile that is not a mapping, every other key and the rest of the
\* document are as they were read
C32_OnlyTunedKeysChange ==
  [][\A r \in RunIds : Commits(r) =>
       LET thr == runs[r].thr
       IN /\ store'.status = thr.status
          /\ store'.wrapped = thr.wrapped
          /\ \A p \in ProfileNames :
               /\ store'.profiles[p].dict = thr.profiles[p].dict
               /\ ~thr.profiles[p].dict => store'.profiles[p] = thr.profiles[p]
               /\ \A k \in Keys :
                    /\ store'.profiles[p].f[k].kind = thr.profiles[p].f[k].kind
                    /\ store'.profiles[p].f[k] # thr.profiles[p].f[k] =>
                         /\ k \in {CALL, SEVER}
                         /\ HasDelta(r, k)
                         /\ thr.profiles[p].f[k].kind = "num"]_vars

\* the bin of a fraction next to k/16, in exact arithmetic: round(8 f) with a
\* tie going up, modulo 8
BinOf(x) ==
  (IF x.k % 2 = 0 THEN x.k \div 2
   ELSE IF x.off >= 0 THEN (x.k + 1) \div 2 ELSE (x.k - 1) \div 2) % 8

\* C33: for every fraction f in [0, 1), phase_name(f) is the table entry at
\* round(8 f) mod 8 with a tie going up, so f below 1/16 is New Moon and
\* f = 1/16 is Waxing Crescent, and the older revision gives the same name.
C33_BinsAndRevisions ==
  lunar.pc = "named" =>
    /\ lunar.name = PHASE_NAMES[BinOf(lunar.x) + 1]
    /\ lunar.older = lunar.name

\* the copy deepcopy makes of mapping id of the argument
Twin(id) == Len(lunar.before) + Rank(Reach(lunar.before, 1), id)

\* a lever as a factor in hundredths, a missing one counting as 1.0
LeverOr1(k) == IF lunar.levers[k].kind = "num" THEN lunar.levers[k].v ELSE 100

\* what the rules make of the leaf at key k of mapping id of the argument
Ruled(id, k) ==
  LET o == lunar.before[id][k]
      c == Path(lunar.before, 1, "meta_gate", "coherence")
      g == Path(lunar.before, 1, "gates", "triggers")
  IN IF o.kind # "num" THEN o
     ELSE IF id = c /\ k \in {"warn_below", "sever_below", "stabilize_above"}
       THEN Number(o.num * LeverOr1("coherence"), o.den * 100)
     ELSE IF id = g /\ k = "early_severance_below"
       THEN Number(o.num * LeverOr1("severance"), o.den * 100)
     ELSE IF id = g /\ k = "call_harmonizers_below"
       THEN Number(o.num * 100, o.den * Max(50, LeverOr1("call_harmonizers_bias")))
     ELSE o

\* the applicator returned and the caller has not touched the result yet
FreshResult ==
  /\ ApplicatorRan /\ lunar.pc = "returned" /\ lunar.edits = 0
  /\ \A k \in Levers : lunar.levers[k].kind # "str"

\* C34: the result of the applicator is the argument with the three coherence
\* thresholds of meta_gate.coherence multiplied by the coherence lever,
\* gates.triggers.early_severance_below multiplied by the severance lever and
\* gates.triggers.call_harmonizers_below divided by max(0.5, bias), a missing
\* lever counting as 1.0; every other leaf is as in the argument, whatever the
\* other levers are.
C34_OnlyRuledLeavesChange ==
  FreshResult =>
    /\ lunar.ret = Twin(lunar.arg)
    /\ \A id \in Reach(lunar.before, 1), k \in ProfileKeys :
         lunar.heap[Twin(id)][k] =
           IF lunar.before[id][k].kind = "ref"
           THEN Ref(Twin(lunar.before[id][k].num))
           ELSE Ruled(id, k)

C34_Witness ==
  /\ FreshResult
  /\ lunar.before = ProfileFull
  /\ lunar.levers["coherence"] = Lever(50)
  /\ lunar.levers["call_harmonizers_bias"] = Lever(20)
  /\ lunar.levers["harmonizers"] = NoLever
  /\ lunar.heap[Twin(5)]["call_harmonizers_below"] = Number(1, 1)
  /\ lunar.heap[Twin(4)]["warn_below"] = Number(30, 100)

\* C35: for every profile, whichever of the ruled paths it lacks, the
\* applicator raises no error and adds no key, and with no nudges the result
\* equals the argument.
C35_AbsentPathsAreNoOps ==
  ApplicatorRan =>
    /\ lunar.pc # "raised"
    /\ (lunar.pc = "returned" /\ lunar.edits = 0) =>
         \A id \in Reach(lunar.before, 1), k \in ProfileKeys :
           /\ lunar.before[id][k].kind = "absent" => lunar.heap[Twin(id)][k].kind = "absent"
           /\ (lunar.levers = NoNudges /\ lunar.before[id][k].kind # "ref") =>
                lunar.heap[Twin(id)][k] = lunar.before[id][k]

\* the bound a verdict drives a key towards, and whether it drives it down
TargetOf(verdict, key) ==
  IF verdict = "reward" THEN (IF key = CALL THEN CallFloor ELSE SeverCeil)
  ELSE (IF key = CALL THEN CallCeil ELSE SeverFloor)
DrivesDown(verdict, key) == (verdict = "reward") <=> (key = CALL)

\* C36: with positive caps, a reward run that writes the store back never
\* increases call_harmonizers_below and never decreases early_severance_below,
\* moves each strictly unless it is at 0.40 or 0.35 afterwards (so that they
\* are reached after finitely many runs), and leaves a value that is at its
\* bound where it is; symmetrically for penalty runs with 0.80 and 0.20.
C36_MonotoneToBounds ==
  [][\A r \in RunIds :
       (Commits(r) /\ CapCall(policy) > 0 /\ CapSever(policy) > 0) =>
         \A p \in ProfileNames, k \in {CALL, SEVER} :
           Writable(runs[r].thr.profiles[p], k) =>
             LET old == runs[r].thr.profiles[p].f[k].v
                 new == store'.profiles[p].f[k].v
                 target == TargetOf(runs[r].verdict, k)
             IN IF DrivesDown(runs[r].verdict, k)
                THEN new <= old /\ (new < old \/ new = target)
                ELSE new >= old /\ (new > old \/ new = target)]_vars

\* C37: a run that was given the APPLY toggle, has proposals and read the
\* store document ends with its deltas committed, whether the document holds
\* the profiles under thresholds.gates.profiles or under top-level
\* gates.profiles; the write never raises.
C37_ApplyCommitsBothLayouts ==
  \A r \in RunIds :
    (Terminated(r) /\ ShouldApply(runs[r]) /\ runs[r].thr.status = "ok") =>
      /\ runs[r].error # "keyerror"
      /\ runs[r].committed

\* C38: with the policy file the loader seeds, a run with enough samples has
\* the verdict reward when the average coherence is at least 0.88 and the
\* average mirror residual at most 0.35, and the verdict penalty when the
\* average coherence is below 0.55.
C38_SeededPolicyDecides ==
  \A r \in RunIds :
    (policy = PolicySeeded /\ HasVerdict(r) /\ runs[r].coh.def /\ runs[r].mir.def
       /\ runs[r].n >= 20) =>
      /\ (runs[r].coh.num >= 88 * runs[r].coh.den /\ runs[r].mir.num <= 35 * runs[r].mir.den)
           => runs[r].verdict = "reward"
      /\ runs[r].coh.num < 55 * runs[r].coh.den => runs[r].verdict = "penalty"

\* the lines of a log without its event records that carry no metrics
MetricRows(rows) ==
  SelectSeq(rows, LAMBDA x : ~(/\ x.line = "mapping" /\ x.event # ""
                               /\ ~x.coherence.has /\ ~x.mirror_residual.has
                               /\ ~x.samples.has))

\* C39 (as claimed): the sample count, averages, verdict and deltas of a run
\* are those of its log with the event records that carry no metrics removed
C39_EventRecordsIgnored ==
  \A r \in RunIds :
    HasVerdict(r) =>
      LET recent == Recent(MetricRows(LoadedRows(r)), runs[r].NOW, runs[r].hours)
          verdict == decision(CoherenceAvg(recent), MirrorAvg(recent),
                              SampleCount(recent), MinSamples(policy),
                              RewardExpr(policy), PenaltyExpr(policy))
      IN /\ runs[r].n = SampleCount(recent)
         /\ runs[r].coh = CoherenceAvg(recent)
         /\ runs[r].mir = MirrorAvg(recent)
         /\ runs[r].verdict = verdict
         /\ runs[r].proposals = Proposals(verdict, CapCall(policy), CapSever(policy))

\* the fingerprint file is the one the last loader run wrote and the memory
\* documents are as that run left them
PinsCurrent(t) ==
  /\ t.run > 0
  /\ Exists(t.fs, FINGERPRINT_FILE) /\ Exists(t.fs, MEM)
  /\ t.fs[FINGERPRINT_FILE].text = Digest(t.fs, MEMORY_DOCS)

\* C40 (as claimed): a call of the guard after a loader run reports Preflight
\* OK when memory/prompts.md is as the run left it and fails when it was
\* changed since, and no call reports OK while the fingerprint file or
\* memory/prompts.md is missing
C40_LoaderThenGuard ==
  [][ activate_guard =>
        /\ PinsCurrent(tree) => tree'.guard = "ok"
        /\ (tree.run > 0 /\ ~PinsCurrent(tree)) => tree'.guard # "ok"
        /\ ~(Exists(tree.fs, FINGERPRINT_FILE) /\ Exists(tree.fs, MEM)) =>
             tree'.guard # "ok" ]_vars

====
